---------------------------- MODULE Spec2Model ----------------------------
(***************************************************************************)
(* VarveDB: the append path (engine.rs Writer), the read path (engine.rs   *)
(* Reader), the key manager (crypto.rs) and the tail-following processor   *)
(* (processor.rs) over the five LMDB databases of a Storage.               *)
(*                                                                         *)
(* Bytes are modelled symbolically: a serialized value is a tagged record, *)
(* SHA-256 is an injective constructor, AES-256-GCM is a record that       *)
(* opens only under the key and the AAD it was sealed with.                *)
(***************************************************************************)
EXTENDS Integers, Sequences, FiniteSets, TLC

(***************************************************************************)
(* Bounds of the model.                                                    *)
(***************************************************************************)
NumWriters == 2
NumStreams == 1
MaxVersion == 2
MaxCalls == 2
MaxBatch == 2
MaxRestarts == 1
\* The most errors one Iter is asked for: the calls of next() a caller makes
\* on an Iter that returns errors.
MaxErrors == 2

\* Integer widths, scaled down: a byte holds one bit, a stream id has
\* StreamIdBytes bytes (16 in the code) and a version VersionBytes (4).
StreamIdBytes == 2
VersionBytes == 3
SequenceBytes == 4

(***************************************************************************)
(* Program constants.                                                      *)
(***************************************************************************)
MAX_INLINE_SIZE == 2048

Writers == 1..NumWriters
Streams == 1..NumStreams
Versions == 1..MaxVersion

\* No master key configured (StorageConfig::master_key = None).
NoKey == << "none", 0 >>

\* The master key of the configuration.
MasterKey == << "master", 1 >>

\* A master key other than the one the store was created with.
OtherKey == << "master", 2 >>

\* No write transaction is open: the LMDB write mutex is free.
NoTxn == [owner |-> 0]

\* The events a caller appends: a value and the length of its rkyv image.
Events ==
    { [value |-> "a", len |-> MAX_INLINE_SIZE],
      [value |-> "b", len |-> MAX_INLINE_SIZE + 1] }

\* Failures the environment can inject into one append call.
Faults == {"none", "serialize", "put", "commit"}

\* StorageConfig { encryption_enabled, master_key }.
Configs ==
    { [encryption_enabled |-> FALSE, master_key |-> NoKey],
      [encryption_enabled |-> TRUE, master_key |-> MasterKey],
      [encryption_enabled |-> TRUE, master_key |-> NoKey] }

VARIABLES
    config,      \* StorageConfig of the open Storage
    db,          \* committed contents of the LMDB environment
    write_txn,   \* the one open RwTxn: its owner and its private view
    notifier,    \* tokio watch channel: value and version
    writer,      \* per Writer clone: position inside append and its locals
    rng,         \* number of keys drawn from OsRng so far
    started,     \* history: number of append calls made so far
    calls,       \* history: the finished append calls and their results
    written,     \* history: global sequence -> the append that committed it
    shredded,    \* history: streams whose key was deleted
    proc,        \* the Processor: position inside run() and its locals
    handled,     \* history: sequences passed to the handler, in order
    erased,      \* history: sequences whose stream key was deleted after them
    runs,        \* history: the earlier runs of the processor
    varve,       \* per Varve handle: position inside Varve::append
    reads,       \* a reading caller: its Iter and how its last read call ended
    standalone,  \* the standalone Writer<N> (writer.rs), its store and its Reader
    deletes      \* history: the delete_key calls for streams without a key

vars ==
    << config, db, write_txn, notifier, writer, rng, started, calls,
       written, shredded, proc, handled, erased, runs, varve, reads,
       standalone, deletes >>

(***************************************************************************)
(* Ordered maps (heed Database): finite functions.                         *)
(***************************************************************************)
EmptyMap == << >>

Put(f, k, v) == (k :> v) @@ f

Delete(f, k) == [x \in DOMAIN f \ {k} |-> f[x]]

Has(f, k) == k \in DOMAIN f

SetMax(S) == CHOOSE x \in S : \A y \in S : y <= x

EmptyDb ==
    [ events_log |-> EmptyMap,
      stream_index |-> EmptyMap,
      consumer_cursors |-> EmptyMap,
      keystore |-> EmptyMap,
      blobs |-> EmptyMap ]

\* StreamKey::to_be_bytes: stream_id (16 BE) || version (4 BE).
StreamKey(stream_id, version) == << stream_id, version >>

(***************************************************************************)
(* rkyv, SHA-256 and AES-256-GCM, symbolically.                            *)
(***************************************************************************)
\* rkyv::to_bytes(&event)
Serialize(event) == [archive |-> "event", value |-> event.value, len |-> event.len]

\* rkyv::check_archived_root::<E>(bytes)
CheckEvent(bytes) == "archive" \in DOMAIN bytes /\ bytes.archive = "event"

\* The event an archived image dereferences to.
Deref(bytes) == [value |-> bytes.value, len |-> bytes.len]

Sha256(bytes) == << "sha256", bytes >>

Inline(bytes) == [archive |-> "payload", variant |-> "Inline", data |-> bytes]

BlobRef(hash) == [archive |-> "payload", variant |-> "BlobRef", data |-> hash]

\* rkyv::check_archived_root::<Payload>(bytes)
CheckPayload(bytes) == "archive" \in DOMAIN bytes /\ bytes.archive = "payload"

\* crypto::encrypt: nonce || ciphertext || tag.
encrypt(key, plaintext, aad) == [sealed_with |-> key, aad |-> aad, msg |-> plaintext]

\* crypto::decrypt: the plaintext, or DecryptionError.
decrypt(key, ciphertext, aad) ==
    IF ciphertext.sealed_with = key /\ ciphertext.aad = aad
    THEN [ok |-> TRUE, msg |-> ciphertext.msg]
    ELSE [ok |-> FALSE, err |-> "DecryptionError"]

(***************************************************************************)
(* KeyManager (crypto.rs).                                                 *)
(***************************************************************************)
\* KeyManager::get_master_key: KeyNotFound(0) when none is configured.
get_master_key(cfg) ==
    IF cfg.master_key = NoKey
    THEN [ok |-> FALSE, err |-> "KeyNotFound(0)"]
    ELSE [ok |-> TRUE, key |-> cfg.master_key]

\* Mutant: a generated key is handed to the caller without being put into
\* the keystore of the transaction.
get_or_create_key_unstored(cfg, d, stream_id, fresh) ==
    LET mk == get_master_key(cfg) IN
    IF Has(d.keystore, stream_id)
    THEN IF ~mk.ok
         THEN [ok |-> FALSE, err |-> mk.err, db |-> d, drew |-> FALSE]
         ELSE LET pt == decrypt(mk.key, d.keystore[stream_id], << stream_id >>) IN
              IF pt.ok
              THEN [ok |-> TRUE, key |-> pt.msg, db |-> d, drew |-> FALSE]
              ELSE [ok |-> FALSE, err |-> pt.err, db |-> d, drew |-> FALSE]
    ELSE IF ~mk.ok
         THEN [ok |-> FALSE, err |-> mk.err, db |-> d, drew |-> TRUE]
         ELSE [ok |-> TRUE, key |-> fresh, drew |-> TRUE, db |-> d]

\* KeyManager::get_or_create_key_with_txn, on the view d of a write
\* transaction; fresh is the key OsRng yields if one is generated.
get_or_create_key_with_txn(cfg, d, stream_id, fresh) ==
    LET mk == get_master_key(cfg) IN
    IF Has(d.keystore, stream_id)
    THEN IF ~mk.ok
         THEN [ok |-> FALSE, err |-> mk.err, db |-> d, drew |-> FALSE]
         ELSE LET pt == decrypt(mk.key, d.keystore[stream_id], << stream_id >>) IN
              IF pt.ok
              THEN [ok |-> TRUE, key |-> pt.msg, db |-> d, drew |-> FALSE]
              ELSE [ok |-> FALSE, err |-> pt.err, db |-> d, drew |-> FALSE]
    ELSE IF ~mk.ok
         THEN [ok |-> FALSE, err |-> mk.err, db |-> d, drew |-> TRUE]
         ELSE [ ok |-> TRUE, key |-> fresh, drew |-> TRUE,
                db |-> [d EXCEPT !.keystore =
                            Put(@, stream_id, encrypt(mk.key, fresh, << stream_id >>))] ]

\* Mutant: the wrapped key is opened without binding it to the stream id.
get_key_any_aad(cfg, d, stream_id) ==
    IF ~Has(d.keystore, stream_id)
    THEN [ok |-> TRUE, found |-> FALSE]
    ELSE LET mk == get_master_key(cfg) IN
         IF ~mk.ok
         THEN [ok |-> FALSE, err |-> mk.err]
         ELSE LET pt == decrypt(mk.key, d.keystore[stream_id],
                                d.keystore[stream_id].aad) IN
              IF pt.ok
              THEN [ok |-> TRUE, found |-> TRUE, key |-> pt.msg]
              ELSE [ok |-> FALSE, err |-> pt.err]

\* KeyManager::get_key_with_txn, on the snapshot d of a read transaction.
get_key_with_txn(cfg, d, stream_id) ==
    IF ~Has(d.keystore, stream_id)
    THEN [ok |-> TRUE, found |-> FALSE]
    ELSE LET mk == get_master_key(cfg) IN
         IF ~mk.ok
         THEN [ok |-> FALSE, err |-> mk.err]
         ELSE LET pt == decrypt(mk.key, d.keystore[stream_id], << stream_id >>) IN
              IF pt.ok
              THEN [ok |-> TRUE, found |-> TRUE, key |-> pt.msg]
              ELSE [ok |-> FALSE, err |-> pt.err]

(***************************************************************************)
(* Writer::append (engine.rs), the part that runs inside the write         *)
(* transaction: from the concurrency check to the two puts.                *)
(***************************************************************************)
\* Mutant: the check rejects every version at or below the stream's maximum.
VersionNotAboveMax(d, stream_id, version) ==
    \E k \in DOMAIN d.stream_index : k[1] = stream_id /\ k[2] >= version

\* Mutant: the check looks the key up with its two parts swapped.
VersionExistsSwapped(d, stream_id, version) ==
    Has(d.stream_index, << version, stream_id >>)

\* Mutant: the check never finds the key.
VersionExistsNever(d, stream_id, version) == FALSE

\* The concurrency check: stream_index.get(&txn, key_bytes).is_some().
VersionExists(d, stream_id, version) ==
    Has(d.stream_index, StreamKey(stream_id, version))

\* events_log.last(&txn).map(|(k, _)| k).unwrap_or(0)
LastSeq(d) ==
    IF DOMAIN d.events_log = {} THEN 0 ELSE SetMax(DOMAIN d.events_log)

\* Mutant: unwrap_or(1), so that the first sequence is 2.
NewSeqFromOne(d) == IF DOMAIN d.events_log = {} THEN 2 ELSE LastSeq(d) + 1

\* let new_seq = last_seq + 1
NewSeq(d) == LastSeq(d) + 1

\* Mutant: a serialized event of exactly MAX_INLINE_SIZE bytes goes to blobs.
IsLargeAtThreshold(event_bytes) == event_bytes.len >= MAX_INLINE_SIZE

\* event_bytes.len() > MAX_INLINE_SIZE
IsLarge(event_bytes) == event_bytes.len > MAX_INLINE_SIZE

\* The payload routed inline or to the blobs database.
RoutePayload(event_bytes) ==
    IF IsLarge(event_bytes) THEN BlobRef(Sha256(event_bytes)) ELSE Inline(event_bytes)

\* Mutant: the blob is never written.
PutBlobSkipped(d, event_bytes) == d

\* Mutant: the hash covers the bytes followed by the sequence of the append.
PutBlobPerAppend(d, event_bytes) ==
    IF IsLarge(event_bytes)
    THEN [d EXCEPT !.blobs =
             Put(@, Sha256([event_bytes EXCEPT !.len = @ + NewSeq(d)]), event_bytes)]
    ELSE d

\* blobs.put(&mut txn, hash, event_bytes) for a large payload.
PutBlob(d, event_bytes) ==
    IF IsLarge(event_bytes)
    THEN [d EXCEPT !.blobs = Put(@, Sha256(event_bytes), event_bytes)]
    ELSE d

\* AAD: stream_id (16 BE) || global sequence (8 BE).
EventAad(stream_id, seq) == << stream_id, seq >>

\* Mutant: the AAD is built from last_seq instead of new_seq.
SealEventLastSeq(key, stream_id, new_seq, bytes) ==
    [prefix |-> stream_id, rest |-> encrypt(key, bytes, << stream_id, new_seq - 1 >>)]

\* final_bytes of an encrypted append: stream_id prefix || encrypted.
SealEvent(key, stream_id, new_seq, bytes) ==
    [prefix |-> stream_id, rest |-> encrypt(key, bytes, EventAad(stream_id, new_seq))]

\* Mutant: the index entry records last_seq instead of new_seq.
PutLogAndIndexLastSeq(d, stream_id, version, new_seq, final_bytes) ==
    [d EXCEPT !.events_log = Put(@, new_seq, final_bytes),
              !.stream_index = Put(@, << stream_id, version >>, new_seq - 1)]

\* events_log.put(new_seq, final_bytes); stream_index.put(key_bytes, new_seq).
PutLogAndIndex(d, stream_id, version, new_seq, final_bytes) ==
    [d EXCEPT !.events_log = Put(@, new_seq, final_bytes),
              !.stream_index = Put(@, StreamKey(stream_id, version), new_seq)]

\* The body of append up to (not including) txn.commit(): the view of the
\* transaction when the body ends, and how it ends.
AppendBody(cfg, d, stream_id, version, event, fault, fresh) ==
    IF VersionExists(d, stream_id, version)
    THEN [ok |-> FALSE, err |-> "ConcurrencyConflict", db |-> d, drew |-> FALSE]
    ELSE IF fault = "serialize"
    THEN [ok |-> FALSE, err |-> "EventSerialization", db |-> d, drew |-> FALSE]
    ELSE
      LET new_seq == NewSeq(d)
          event_bytes == Serialize(event)
          d1 == PutBlob(d, event_bytes)
          bytes == RoutePayload(event_bytes)
          km == get_or_create_key_with_txn(cfg, d1, stream_id, fresh)
      IN  IF cfg.encryption_enabled /\ ~km.ok
          THEN [ok |-> FALSE, err |-> km.err, db |-> km.db, drew |-> km.drew]
          ELSE
            LET d2 == IF cfg.encryption_enabled THEN km.db ELSE d1
                drew == cfg.encryption_enabled /\ km.drew
                final_bytes == IF cfg.encryption_enabled
                               THEN SealEvent(km.key, stream_id, new_seq, bytes)
                               ELSE bytes
            IN  IF fault = "put"
                THEN [ok |-> FALSE, err |-> "Heed", db |-> d2, drew |-> drew]
                ELSE [ ok |-> TRUE, new_seq |-> new_seq, drew |-> drew,
                       db |-> PutLogAndIndex(d2, stream_id, version, new_seq, final_bytes) ]

\* Mutant: the error path commits what the transaction wrote so far.
AbortKeepsWrites(committed, view) == view

\* A RwTxn dropped without commit aborts: the environment keeps the
\* committed contents and nothing of the transaction's view.
Abort(committed, view) == committed

\* Mutant: the transaction is dropped instead of committed.
CommitForgotten(committed, view) == committed

\* txn.commit(): the transaction's view becomes the committed contents.
Commit(committed, view) == view

\* What append hands back to its caller on success.
AppendOk(new_seq) == [kind |-> "Ok", seq |-> new_seq]

AppendErr(err) == [kind |-> err, seq |-> 0]

\* notifier.send(new_seq): the value is replaced and the version advances.
Send(n, value) == [value |-> value, version |-> n.version + 1]

(***************************************************************************)
(* Reader (engine.rs), on the snapshot d of a read transaction.            *)
(***************************************************************************)
ReadErr(err) == [ok |-> FALSE, err |-> err]

ReadNone == [ok |-> TRUE, found |-> FALSE]

ReadSome(event) == [ok |-> TRUE, found |-> TRUE, event |-> event]

\* Steps after decryption: validate the payload, resolve it, validate the
\* event.
ResolvePayload(d, payload_bytes) ==
    IF ~CheckPayload(payload_bytes)
    THEN ReadErr("EventValidation")
    ELSE IF payload_bytes.variant = "Inline"
    THEN IF CheckEvent(payload_bytes.data)
         THEN ReadSome(Deref(payload_bytes.data))
         ELSE ReadErr("EventValidation")
    ELSE IF ~Has(d.blobs, payload_bytes.data)
    THEN ReadErr("EventValidation")
    ELSE IF CheckEvent(d.blobs[payload_bytes.data])
         THEN ReadSome(Deref(d.blobs[payload_bytes.data]))
         ELSE ReadErr("EventValidation")

\* Mutant: the record is opened without binding it to prefix and sequence.
OpenEventAnyAad(cfg, d, seq, bytes) ==
    IF "prefix" \notin DOMAIN bytes
    THEN ReadErr("InvalidEncryptedEventLength")
    ELSE LET km == get_key_with_txn(cfg, d, bytes.prefix) IN
         IF ~km.ok THEN ReadErr(km.err)
         ELSE IF ~km.found THEN ReadErr("KeyNotFound")
         ELSE decrypt(km.key, bytes.rest, bytes.rest.aad)

\* The encrypted branch of get: find the key by the prefix, open with
\* AAD = prefix || seq.
OpenEvent(cfg, d, seq, bytes) ==
    IF "prefix" \notin DOMAIN bytes
    THEN ReadErr("InvalidEncryptedEventLength")
    ELSE LET km == get_key_with_txn(cfg, d, bytes.prefix) IN
         IF ~km.ok THEN ReadErr(km.err)
         ELSE IF ~km.found THEN ReadErr("KeyNotFound")
         ELSE decrypt(km.key, bytes.rest, EventAad(bytes.prefix, seq))

\* Reader::get(txn, seq)
get(cfg, d, seq) ==
    IF ~Has(d.events_log, seq)
    THEN ReadNone
    ELSE IF cfg.encryption_enabled
    THEN LET opened == OpenEvent(cfg, d, seq, d.events_log[seq]) IN
         IF opened.ok THEN ResolvePayload(d, opened.msg) ELSE opened
    ELSE ResolvePayload(d, d.events_log[seq])

\* Reader::get_by_stream(txn, stream_id, version): resolve the index, then get.
get_by_stream(cfg, d, stream_id, version) ==
    IF ~Has(d.stream_index, StreamKey(stream_id, version))
    THEN ReadNone
    ELSE get(cfg, d, d.stream_index[StreamKey(stream_id, version)])

\* Varve::count: get(seq) for seq = 1, 2, ... until it returns None; an
\* error of get ends the count with that error.
RECURSIVE CountFrom(_, _, _)
CountFrom(cfg, d, seq) ==
    LET r == get(cfg, d, seq) IN
    IF ~r.ok THEN [ok |-> FALSE, n |-> 0]
    ELSE IF ~r.found THEN [ok |-> TRUE, n |-> 0]
    ELSE LET rest == CountFrom(cfg, d, seq + 1) IN
         [ok |-> rest.ok, n |-> IF rest.ok THEN rest.n + 1 ELSE 0]

count(cfg, d) == CountFrom(cfg, d, 1)

(***************************************************************************)
(* Writer clones appending concurrently.                                   *)
(***************************************************************************)
Idle == [pc |-> "idle", stream_id |-> 0, version |-> 0, value |-> "", len |-> 0,
         fault |-> "none", new_seq |-> 0, existed |-> FALSE]

\* Mutant: OsRng yields the same key every time.
FreshKeyRepeats == << "stream", 1 >>

\* Every append call has returned.
AllIdle == \A w \in Writers : writer[w].pc = "idle"

\* The key OsRng yields next.
FreshKey == << "stream", rng + 1 >>

Finish(w, result) ==
    calls' = calls \cup
        { [ stream_id |-> writer[w].stream_id, version |-> writer[w].version,
            value |-> writer[w].value, fault |-> writer[w].fault,
            existed |-> writer[w].existed, result |-> result ] }

\* Mutant: notifier.send(new_seq) is called inside the write transaction,
\* before txn.commit().
AppendTxnSendsInside(w, stream_id, version, event, fault) ==
    /\ writer[w].pc = "idle"
    /\ started < MaxCalls
    /\ started' = started + 1
    /\ write_txn = NoTxn
    /\ LET r == AppendBody(config, db, stream_id, version, event, fault, FreshKey)
           me == [Idle EXCEPT !.stream_id = stream_id, !.version = version,
                              !.value = event.value, !.len = event.len,
                              !.fault = fault,
                              !.existed = << stream_id, version >> \in
                                              DOMAIN db.stream_index]
       IN  /\ rng' = IF r.drew THEN rng + 1 ELSE rng
           /\ IF r.ok
              THEN /\ write_txn' = [owner |-> w, db |-> r.db]
                   /\ writer' = [writer EXCEPT ![w] =
                                    [me EXCEPT !.pc = "commit", !.new_seq = r.new_seq]]
                   /\ notifier' = Send(notifier, r.new_seq)
                   /\ UNCHANGED << db, calls >>
              ELSE /\ db' = Abort(db, r.db)
                   /\ calls' = calls \cup
                        { [ stream_id |-> stream_id, version |-> version,
                            value |-> event.value, fault |-> fault,
                            existed |-> me.existed,
                            result |-> AppendErr(r.err) ] }
                   /\ UNCHANGED << write_txn, writer, notifier >>
    /\ UNCHANGED << deletes, config, standalone, reads, erased, runs, written, shredded, proc, handled >>

\* append, from env.write_txn() to just before txn.commit(): takes the
\* write mutex (blocks while another write transaction is open) and runs
\* the body; an error drops the transaction.  The caller (a direct call of
\* Writer::append, or Varve::append) says what becomes of varve.
AppendTxn(w, stream_id, version, event, fault) ==
    /\ writer[w].pc = "idle"
    /\ started < MaxCalls
    /\ started' = started + 1
    /\ write_txn = NoTxn
    /\ LET r == AppendBody(config, db, stream_id, version, event, fault, FreshKey)
           me == [Idle EXCEPT !.stream_id = stream_id, !.version = version,
                              !.value = event.value, !.len = event.len,
                              !.fault = fault,
                              !.existed = << stream_id, version >> \in
                                              DOMAIN db.stream_index]
       IN  /\ rng' = IF r.drew THEN rng + 1 ELSE rng
           /\ IF r.ok
              THEN /\ write_txn' = [owner |-> w, db |-> r.db]
                   /\ writer' = [writer EXCEPT ![w] =
                                    [me EXCEPT !.pc = "commit", !.new_seq = r.new_seq]]
                   /\ UNCHANGED << db, calls >>
              ELSE /\ db' = Abort(db, r.db)
                   /\ calls' = calls \cup
                        { [ stream_id |-> stream_id, version |-> version,
                            value |-> event.value, fault |-> fault,
                            existed |-> me.existed,
                            result |-> AppendErr(r.err) ] }
                   /\ UNCHANGED << write_txn, writer >>
    /\ UNCHANGED << deletes, config, standalone, reads, erased, runs, notifier, written, shredded, proc, handled >>

\* txn.commit()?: publishes the view and releases the write mutex, or fails.
AppendCommit(w) ==
    /\ writer[w].pc = "commit"
    /\ write_txn.owner = w
    /\ write_txn' = NoTxn
    /\ IF writer[w].fault = "commit"
       THEN /\ db' = Abort(db, write_txn.db)
            /\ Finish(w, AppendErr("Heed"))
            /\ writer' = [writer EXCEPT ![w] = Idle]
            /\ UNCHANGED written
       ELSE /\ db' = Commit(db, write_txn.db)
            /\ written' = Put(written, writer[w].new_seq,
                              [ stream_id |-> writer[w].stream_id,
                                version |-> writer[w].version,
                                event |-> [value |-> writer[w].value,
                                           len |-> writer[w].len],
                                stored |-> write_txn.db.events_log[writer[w].new_seq],
                                nth |-> Cardinality(DOMAIN written) + 1 ])
            /\ writer' = [writer EXCEPT ![w].pc = "notify"]
            /\ UNCHANGED calls
    /\ UNCHANGED << deletes, config, standalone, erased, runs, varve, reads, notifier, rng, started, shredded, proc,
                    handled >>

\* let _ = notifier.send(new_seq); Ok(new_seq)
AppendNotify(w) ==
    /\ writer[w].pc = "notify"
    /\ notifier' = Send(notifier, writer[w].new_seq)
    /\ Finish(w, AppendOk(writer[w].new_seq))
    /\ writer' = [writer EXCEPT ![w] = Idle]
    /\ UNCHANGED << deletes, config, standalone, erased, runs, varve, reads, db, write_txn, rng, started, written,
                    shredded, proc, handled >>

\* Mutant: the keystore is cleared.
DeleteKeyClearsKeystore(d, stream_id) == [d EXCEPT !.keystore = EmptyMap]

\* keystore.delete(&mut txn, &stream_id); txn.commit(): the contents the
\* transaction of delete_key commits.
DeleteKeyTxn(d, stream_id) == [d EXCEPT !.keystore = Delete(@, stream_id)]

\* KeyManager::delete_key(stream_id) for a stream that has a key: one write
\* transaction of its own.  The call for a stream without a key is
\* DeleteAbsentKey.
DeleteKey(stream_id) ==
    /\ config.encryption_enabled
    /\ write_txn = NoTxn
    /\ Has(db.keystore, stream_id)
    /\ db' = DeleteKeyTxn(db, stream_id)
    /\ shredded' = shredded \cup {stream_id}
    /\ erased' = erased \cup {q \in DOMAIN written : written[q].stream_id = stream_id}
    /\ UNCHANGED << deletes, config, standalone, runs, varve, reads, write_txn, notifier, writer, rng, started, calls,
                    written, proc, handled >>

\* KeyManager::delete_key(stream_id) for a stream that has no key: the
\* delete finds nothing, the transaction commits and the call returns Ok.
DeleteAbsentKey(stream_id) ==
    /\ config.encryption_enabled
    /\ write_txn = NoTxn
    /\ ~Has(db.keystore, stream_id)
    /\ db' = DeleteKeyTxn(db, stream_id)
    /\ deletes' = deletes \cup {[stream_id |-> stream_id, result |-> "Ok"]}
    /\ UNCHANGED << config, standalone, runs, varve, reads, write_txn, notifier, writer,
                    rng, started, calls, written, shredded, erased, proc, handled >>

(***************************************************************************)
(* Processor (processor.rs).                                               *)
(***************************************************************************)
\* consumer_id of the one processor.
ConsumerId == 1

\* ProcessorConfig::batch_size values the processor is run with.
BatchSizes == 0..MaxBatch

NoReadTxn == [open |-> FALSE]

ProcOff == [pc |-> "off"]

\* A constructed processor that has not run yet; rx was subscribed at
\* notifier version seen.  timed_out is last_commit.elapsed() >= batch_timeout.
ProcNew(batch_size, seen) ==
    [ pc |-> "start", batch_size |-> batch_size, seen |-> seen,
      current_seq |-> 0, target_seq |-> 0, pending_updates |-> 0,
      processed_any |-> FALSE, reached_snapshot_end |-> FALSE,
      read_txn |-> NoReadTxn, result |-> "running", failed_at |-> 0,
      timed_out |-> FALSE ]

\* Mutant: unwrap_or(1).
LoadCursorOrOne(d, consumer_id) ==
    IF Has(d.consumer_cursors, consumer_id) THEN d.consumer_cursors[consumer_id] ELSE 1

\* consumer_cursors.get(&txn, &consumer_id)?.unwrap_or(0)
LoadCursor(d, consumer_id) ==
    IF Has(d.consumer_cursors, consumer_id) THEN d.consumer_cursors[consumer_id] ELSE 0

\* Mutant: the cursor records the next sequence to process.
CursorAfterNext(current_seq) == current_seq + 1

\* The value put into consumer_cursors: &current_seq.
CursorValue(current_seq) == current_seq

\* Mutant: the cursor write is dropped.
CommitCursorDropped(d, consumer_id, current_seq) == d

\* Mutant: the cursor is stored under one key whatever the consumer id.
CommitCursorOneKey(d, consumer_id, current_seq) ==
    [d EXCEPT !.consumer_cursors = Put(@, ConsumerId, CursorValue(current_seq))]

\* consumer_cursors.put(&mut wtxn, &consumer_id, &current_seq); wtxn.commit()
CommitCursor(d, consumer_id, current_seq) ==
    [d EXCEPT !.consumer_cursors = Put(@, consumer_id, CursorValue(current_seq))]

\* Mutant: the cursor is committed once the batch is exceeded.
CommitNeededAboveBatch(p, elapsed) ==
    \/ p.pending_updates > p.batch_size
    \/ (p.processed_any /\ elapsed)

\* The commit condition after the inner loop.
CommitNeeded(p, elapsed) ==
    \/ p.pending_updates >= p.batch_size
    \/ (p.processed_any /\ elapsed)

\* run(): the initial cursor load.
ProcStart ==
    /\ proc.pc = "start"
    /\ proc' = [proc EXCEPT !.pc = "head",
                            !.current_seq = LoadCursor(db, ConsumerId)]
    /\ UNCHANGED << deletes, config, standalone, erased, runs, varve, reads, db, write_txn, notifier, writer, rng, started, calls,
                    written, shredded, handled >>

\* run(): let head_seq = *rx.borrow(); enter process_backlog when behind.
ProcHead ==
    /\ proc.pc = "head"
    /\ IF proc.current_seq < notifier.value
       THEN proc' = [proc EXCEPT !.pc = "outer", !.target_seq = notifier.value,
                                 !.pending_updates = 0, !.read_txn = NoReadTxn,
                                 !.timed_out = FALSE]
       ELSE proc' = [proc EXCEPT !.pc = "check"]
    /\ UNCHANGED << deletes, config, standalone, erased, runs, varve, reads, db, write_txn, notifier, writer, rng, started, calls,
                    written, shredded, handled >>

\* process_backlog: the head of the outer loop; opens a read transaction
\* when none is held.
ProcOuter ==
    /\ proc.pc = "outer"
    /\ IF proc.current_seq < proc.target_seq
       THEN proc' = [proc EXCEPT
                        !.pc = "inner",
                        !.read_txn = IF proc.read_txn.open THEN proc.read_txn
                                     ELSE [open |-> TRUE, db |-> db],
                        !.processed_any = FALSE,
                        !.reached_snapshot_end = FALSE]
       ELSE proc' = [proc EXCEPT !.pc = "final"]
    /\ UNCHANGED << deletes, config, standalone, erased, runs, varve, reads, db, write_txn, notifier, writer, rng, started, calls,
                    written, shredded, handled >>

\* process_backlog: one pass of the inner loop: fetch current_seq + 1 and
\* hand it to the handler, whose outcome is handler_ok.
ProcFetch(handler_ok) ==
    /\ proc.pc = "inner"
    /\ IF ~(proc.current_seq < proc.target_seq)
       THEN /\ proc' = [proc EXCEPT !.pc = "decide"]
            /\ UNCHANGED handled
       ELSE LET next_seq == proc.current_seq + 1
                r == get(config, proc.read_txn.db, next_seq)
            IN  IF ~r.ok
                THEN /\ proc' = [proc EXCEPT !.pc = "stopped", !.result = r.err,
                                             !.failed_at = next_seq,
                                             !.read_txn = NoReadTxn]
                     /\ UNCHANGED handled
                ELSE IF ~r.found
                THEN /\ proc' = [proc EXCEPT !.pc = "decide",
                                             !.reached_snapshot_end = TRUE]
                     /\ UNCHANGED handled
                ELSE /\ handled' = Append(handled, next_seq)
                     /\ IF ~handler_ok
                        THEN proc' = [proc EXCEPT !.pc = "stopped",
                                                  !.result = "HandlerError",
                                                  !.failed_at = next_seq,
                                                  !.read_txn = NoReadTxn]
                        ELSE proc' = [proc EXCEPT
                                !.current_seq = next_seq,
                                !.pending_updates = @ + 1,
                                !.processed_any = TRUE,
                                !.pc = IF proc.pending_updates + 1 >= proc.batch_size
                                       THEN "decide" ELSE "inner"]
    /\ UNCHANGED << deletes, config, standalone, erased, runs, varve, reads, db, write_txn, notifier, writer, rng, started, calls,
                    written, shredded >>

\* process_backlog: after the inner loop: the batched cursor commit (its
\* own write transaction) when the batch is full or batch_timeout elapsed,
\* then the read transaction is dropped if the snapshot ended.
ProcDecide(elapsed) ==
    /\ proc.pc = "decide"
    /\ elapsed = proc.timed_out
    /\ IF CommitNeeded(proc, elapsed)
       THEN /\ write_txn = NoTxn
            /\ db' = CommitCursor(db, ConsumerId, proc.current_seq)
       ELSE UNCHANGED db
    /\ proc' = [proc EXCEPT
                   !.pc = "outer",
                   !.pending_updates = IF CommitNeeded(proc, elapsed) THEN 0 ELSE @,
                   !.timed_out = IF CommitNeeded(proc, elapsed) THEN FALSE ELSE @,
                   !.read_txn = IF proc.reached_snapshot_end THEN NoReadTxn ELSE @]
    /\ UNCHANGED << deletes, config, standalone, erased, runs, varve, reads, write_txn, notifier, writer, rng, started, calls,
                    written, shredded, handled >>

\* Time passes inside process_backlog until batch_timeout has elapsed since
\* last_commit; it matters from the first fetch to the commit condition.
ProcTick ==
    /\ proc.pc \in {"inner", "decide"}
    /\ ~proc.timed_out
    /\ proc' = [proc EXCEPT !.timed_out = TRUE]
    /\ UNCHANGED << deletes, config, standalone, erased, runs, varve, reads, db, write_txn, notifier, writer,
                    rng, started, calls, written, shredded, handled >>

\* Mutant: process_backlog returns without its final cursor commit.
ProcFinalNoResidual ==
    /\ proc.pc = "final"
    /\ proc' = [proc EXCEPT !.pc = "check", !.read_txn = NoReadTxn,
                            !.pending_updates = 0, !.timed_out = FALSE]
    /\ UNCHANGED << deletes, config, standalone, erased, runs, varve, reads, db, write_txn, notifier, writer,
                    rng, started, calls, written, shredded, handled >>

\* Mutant: the read transaction outlives process_backlog.
ProcFinalKeepsTxn ==
    /\ proc.pc = "final"
    /\ IF proc.pending_updates > 0
       THEN /\ write_txn = NoTxn
            /\ db' = CommitCursor(db, ConsumerId, proc.current_seq)
       ELSE UNCHANGED db
    /\ proc' = [proc EXCEPT !.pc = "check", !.pending_updates = 0,
                            !.timed_out = FALSE]
    /\ UNCHANGED << deletes, config, standalone, erased, runs, varve, reads, write_txn, notifier, writer,
                    rng, started, calls, written, shredded, handled >>

\* process_backlog: the final commit and the return to run().
ProcFinal ==
    /\ proc.pc = "final"
    /\ IF proc.pending_updates > 0
       THEN /\ write_txn = NoTxn
            /\ db' = CommitCursor(db, ConsumerId, proc.current_seq)
       ELSE UNCHANGED db
    /\ proc' = [proc EXCEPT !.pc = "check", !.read_txn = NoReadTxn,
                            !.pending_updates = 0, !.timed_out = FALSE]
    /\ UNCHANGED << deletes, config, standalone, erased, runs, varve, reads, write_txn, notifier, writer, rng, started, calls,
                    written, shredded, handled >>

\* run(): if current_seq >= *rx.borrow() the task awaits rx.changed().
ProcCheck ==
    /\ proc.pc = "check"
    /\ proc' = [proc EXCEPT !.pc = IF proc.current_seq >= notifier.value
                                   THEN "wait" ELSE "head"]
    /\ UNCHANGED << deletes, config, standalone, erased, runs, varve, reads, db, write_txn, notifier, writer, rng, started, calls,
                    written, shredded, handled >>

\* rx.changed().await completes once the channel holds a version the
\* receiver has not seen, and marks it seen.
ProcWake ==
    /\ proc.pc = "wait"
    /\ notifier.version # proc.seen
    /\ proc' = [proc EXCEPT !.pc = "head", !.seen = notifier.version]
    /\ UNCHANGED << deletes, config, standalone, erased, runs, varve, reads, db, write_txn, notifier, writer, rng, started, calls,
                    written, shredded, handled >>

\* A Varve handle outside append.
VarveIdle == [pc |-> "idle", stream_id |-> 0, version |-> 0, scanned |-> {}]

\* The processor's task dies, at any point of run() or after run() returned
\* an error, and a new Processor is constructed over the same Storage with
\* the same consumer_id and run.
ProcRestart ==
    /\ proc.pc # "off"
    /\ Len(runs) < MaxRestarts
    /\ runs' = Append(runs, [ cursor |-> LoadCursor(db, ConsumerId),
                              handled |-> handled, pc |-> proc.pc ])
    /\ handled' = << >>
    /\ proc' = ProcNew(proc.batch_size, notifier.version)
    /\ UNCHANGED << deletes, config, standalone, erased, varve, reads, db, write_txn, notifier, writer, rng,
                    started, calls, written, shredded >>

\* consumer_id of a second processor over the same Storage.
OtherConsumerId == 2

\* A cursor commit of the second processor, whose run is not followed step
\* by step: it has handled the events up to the head it read from the
\* notifier, beyond its own persisted cursor.
OtherCursorCommit ==
    /\ write_txn = NoTxn
    /\ notifier.value > LoadCursor(db, OtherConsumerId)
    /\ db' = CommitCursor(db, OtherConsumerId, notifier.value)
    /\ UNCHANGED << deletes, config, standalone, erased, runs, varve, reads, write_txn, notifier, writer,
                    rng, started, calls, written, shredded, proc, handled >>

(***************************************************************************)
(* Varve::append with ExpectedVersion::Auto (varve.rs): the prefix scan of *)
(* stream_index over the key bytes, then Writer::append.                   *)
(***************************************************************************)
\* The number of values of one byte.
Radix == 2

\* u32::MAX at the model's width.
U32_MAX == Radix ^ VersionBytes - 1

\* Mutant: least significant byte first.
to_le_bytes(n, width) ==
    [i \in 1..width |-> (n \div (Radix ^ (i - 1))) % Radix]

\* n.to_be_bytes() at the given width: most significant byte first.
to_be_bytes(n, width) ==
    [i \in 1..width |-> (n \div (Radix ^ (width - i))) % Radix]

\* u32::from_be_bytes(bytes)
RECURSIVE from_be_bytes(_)
from_be_bytes(bytes) ==
    IF bytes = << >> THEN 0
    ELSE from_be_bytes(SubSeq(bytes, 1, Len(bytes) - 1)) * Radix + bytes[Len(bytes)]

\* StreamKey::to_be_bytes: the key bytes of a stream_index entry.
KeyBytes(key) ==
    to_be_bytes(key[1], StreamIdBytes) \o to_be_bytes(key[2], VersionBytes)

\* LMDB's key order: bytewise comparison of keys of equal length.
LexLess(a, b) ==
    \E i \in 1..Len(a) : a[i] < b[i] /\ \A j \in 1..(i - 1) : a[j] = b[j]

\* The keys of a set in LMDB's order.
RECURSIVE InKeyOrder(_)
InKeyOrder(S) ==
    IF S = {} THEN << >>
    ELSE LET first == CHOOSE x \in S : \A y \in S \ {x} : LexLess(x, y)
         IN  << first >> \o InKeyOrder(S \ {first})

\* Mutant: the scan iterates the whole index.
iter_whole_index(d, prefix) ==
    InKeyOrder({KeyBytes(key) : key \in DOMAIN d.stream_index})

\* stream_index.prefix_iter(&txn, prefix): the keys that start with prefix,
\* in key order.
prefix_iter(d, prefix) ==
    InKeyOrder({k \in {KeyBytes(key) : key \in DOMAIN d.stream_index} :
                   SubSeq(k, 1, Len(prefix)) = prefix})

\* The version in key_bytes[16..20].
VersionOf(key_bytes) ==
    from_be_bytes(SubSeq(key_bytes, StreamIdBytes + 1, StreamIdBytes + VersionBytes))

\* Varve::get_last_stream_version: the version of iter.last(), or 0.
get_last_stream_version(d, stream_id) ==
    LET iter == prefix_iter(d, to_be_bytes(stream_id, StreamIdBytes)) IN
    IF iter = << >> THEN 0 ELSE VersionOf(iter[Len(iter)])

\* Versions a caller passes as ExpectedVersion::Exact: any nonzero u32.
ExactVersions == Versions \cup {U32_MAX}

\* Varve::append(payload, Auto), up to the call of Writer::append: the scan
\* in its own read transaction and last_ver + 1 in u32.  At u32::MAX the
\* addition panics when the build checks overflow and wraps to 0 when it
\* does not.
VarveScan(w, stream_id, overflow_checks) ==
    /\ varve[w].pc = "idle"
    /\ writer[w].pc = "idle"
    /\ started < MaxCalls
    /\ LET last_ver == get_last_stream_version(db, stream_id) IN
       varve' = [varve EXCEPT ![w] =
                    [ pc |-> IF last_ver = U32_MAX /\ overflow_checks
                             THEN "panicked" ELSE "scanned",
                      stream_id |-> stream_id,
                      version |-> (last_ver + 1) % (U32_MAX + 1),
                      scanned |-> DOMAIN db.stream_index ]]
    /\ UNCHANGED << deletes, config, standalone, reads, erased, runs, db, write_txn, notifier, writer, rng,
                    started, calls, written, shredded, proc, handled >>

\* Varve::append(payload, Auto): self.writer.append(stream_id, version, event).
VarveAppendAuto(w, event) ==
    /\ varve[w].pc = "scanned"
    /\ AppendTxn(w, varve[w].stream_id, varve[w].version, event, "none")
    /\ varve' = [varve EXCEPT ![w] = VarveIdle]

\* Varve::append(payload, Exact(v)): self.writer.append(stream_id, v, event).
VarveAppendExact(w, stream_id, version, event) ==
    /\ varve[w].pc = "idle"
    /\ AppendTxn(w, stream_id, version, event, "none")
    /\ UNCHANGED varve

(***************************************************************************)
(* Reading through Varve (varve.rs): read transactions, Iter, and the      *)
(* calls that open a read transaction of their own.                        *)
(***************************************************************************)
\* env.read_txn(): a snapshot of the committed databases.
read_txn(d) == [open |-> TRUE, db |-> d]

\* Mutant: the end of a read transaction publishes its snapshot.
DropPublishes(committed, txn) == txn.db

\* Drop of a heed::RoTxn: nothing of it reaches the environment.
DropRoTxn(committed, txn) == committed

\* Mutant: next() reads in a transaction opened for the call.
IterTxnPerCall(it, committed) == committed

\* &self.txn of an Iter: the snapshot taken by iter().
IterTxn(it, committed) == it.txn.db

\* Varve::collect_events: get(seq) for seq = 1, 2, ... until None; an error
\* of get ends the call with that error.
RECURSIVE CollectFrom(_, _, _)
CollectFrom(cfg, d, seq) ==
    LET r == get(cfg, d, seq) IN
    IF ~r.ok THEN [ok |-> FALSE, err |-> r.err]
    ELSE IF ~r.found THEN [ok |-> TRUE, events |-> << >>]
    ELSE LET rest == CollectFrom(cfg, d, seq + 1) IN
         IF rest.ok THEN [ok |-> TRUE, events |-> << r.event >> \o rest.events]
         ELSE rest

collect_events(cfg, d) == CollectFrom(cfg, d, 1)

\* The read calls a caller makes, with their arguments.
ReadOps ==
    [op : {"get"}, seq : 0..(MaxCalls + 1)]
      \cup [op : {"get_by_stream"}, stream_id : Streams, version : 0..MaxVersion]
      \cup [op : {"get_key"}, stream_id : Streams]
      \cup [op : {"count", "collect_events"}]

\* What a read call returns on the snapshot d.
ReadResult(cfg, d, c) ==
    CASE c.op = "get" -> get(cfg, d, c.seq)
      [] c.op = "get_by_stream" -> get_by_stream(cfg, d, c.stream_id, c.version)
      [] c.op = "get_key" -> get_key_with_txn(cfg, d, c.stream_id)
      [] c.op = "count" -> count(cfg, d)
      [] c.op = "collect_events" -> collect_events(cfg, d)

\* No Iter, no read call made yet.
ReadsClosed ==
    [ pc |-> "closed", txn |-> NoReadTxn, current_seq |-> 0, items |-> << >>,
      err |-> "", errors |-> 0, head |-> 0, gone |-> {},
      last |-> [op |-> "none", ok |-> TRUE] ]

\* Varve::iter(): a read transaction and current_seq = 1.  head and gone
\* record what was committed and what was shredded at that moment.
IterOpen ==
    /\ reads.pc = "closed"
    /\ reads' = [reads EXCEPT !.pc = "open", !.txn = read_txn(db),
                              !.current_seq = 1, !.items = << >>, !.err = "",
                              !.errors = 0,
                              !.head = Cardinality(DOMAIN written),
                              !.gone = erased]
    /\ UNCHANGED << deletes, config, standalone, db, write_txn, notifier, writer, rng, started, calls,
                    written, shredded, proc, handled, erased, runs, varve >>

\* Iter::next(): reader.get(&self.txn, self.current_seq).  Some(Ok(view))
\* advances current_seq, None ends the iteration, Some(Err(e)) leaves
\* current_seq where it is; the caller may call next() again after an error.
\* errors counts the errors the Iter has returned.
IterNext ==
    /\ reads.pc \in {"open", "failed"}
    /\ reads.errors < MaxErrors
    /\ LET r == get(config, IterTxn(reads, db), reads.current_seq) IN
       reads' = IF ~r.ok
                THEN [reads EXCEPT !.pc = "failed", !.err = r.err,
                                   !.errors = @ + 1]
                ELSE IF r.found
                THEN [reads EXCEPT !.items = Append(@, r.event),
                                   !.current_seq = @ + 1]
                ELSE [reads EXCEPT !.pc = "ended"]
    /\ UNCHANGED << deletes, config, standalone, db, write_txn, notifier, writer, rng, started, calls,
                    written, shredded, proc, handled, erased, runs, varve >>

\* The Iter is dropped, and its read transaction with it.
IterDrop ==
    /\ reads.pc \in {"open", "ended", "failed"}
    /\ db' = DropRoTxn(db, reads.txn)
    /\ reads' = [ReadsClosed EXCEPT !.last = reads.last]
    /\ UNCHANGED << deletes, config, standalone, write_txn, notifier, writer, rng, started, calls,
                    written, shredded, proc, handled, erased, runs, varve >>

\* A read call in a read transaction opened for it and dropped after it:
\* Varve::get, get_by_stream, get_one, count, collect_events,
\* KeyManager::get_key.
ReadCall(c) ==
    /\ LET txn == read_txn(db) IN
       /\ reads' = [reads EXCEPT !.last =
                       [op |-> c.op, ok |-> ReadResult(config, txn.db, c).ok]]
       /\ db' = DropRoTxn(db, txn)
    /\ UNCHANGED << deletes, config, standalone, write_txn, notifier, writer, rng, started, calls,
                    written, shredded, proc, handled, erased, runs, varve >>

(***************************************************************************)
(* The standalone writer and reader over an encrypted environment          *)
(* (writer.rs, reader.rs): one events database keyed by sequence.          *)
(***************************************************************************)
\* Writer<N>: the length of serializer_buffer.
N == 2048

\* u64::MAX, for a sequence of SequenceBytes bytes.
U64_MAX == Radix ^ SequenceBytes - 1

\* Faults of a standalone append: none, put fails, commit fails.
StandaloneFaults == {"none", "put", "commit"}

\* The events given to the standalone writer: two that fit the buffer and
\* one that does not.
StandaloneEvents == Events \cup {[value |-> "c", len |-> 1]}

\* Writer::with_config on a new path: sequence = 0 and an empty events
\* database.  appended records the bytes of the successful appends, in
\* call order; got the last result of Reader::get.
StandaloneNew ==
    [ sequence |-> 0, events_db |-> EmptyMap, appended |-> << >>,
      attempts |-> 0, opened |-> 0, got |-> [found |-> FALSE] ]

\* self.sequence += 1 stands between the put and the commit.
SequenceAfterPut(sequence, committed) == sequence + 1

\* Writer::append and Writer::append_alloc: serialize into the buffer, put
\* with NO_OVERWRITE at self.sequence, advance the sequence, commit.
StandaloneAppend(alloc, event, fault) ==
    /\ standalone.attempts < MaxCalls + 1
    /\ LET bytes == Serialize(event)
           fits == bytes.len <= N
           put_ok == fits /\ fault # "put" /\ ~Has(standalone.events_db, standalone.sequence)
           committed == put_ok /\ fault # "commit"
       IN  standalone' =
             [standalone EXCEPT
                !.attempts = @ + 1,
                !.sequence = IF put_ok THEN SequenceAfterPut(@, committed) ELSE @,
                !.events_db = IF committed THEN Put(@, standalone.sequence, bytes) ELSE @,
                !.appended = IF committed THEN Append(@, bytes) ELSE @]
    /\ UNCHANGED << deletes, config, db, write_txn, notifier, writer, rng, started, calls,
                    written, shredded, proc, handled, erased, runs, varve, reads >>

\* The Writer is dropped and a new one is created over the same path:
\* sequence = 0 again, the events database as committed.
StandaloneReopen ==
    /\ standalone.opened < MaxRestarts
    /\ standalone' = [standalone EXCEPT !.sequence = 0, !.opened = @ + 1]
    /\ UNCHANGED << deletes, config, db, write_txn, notifier, writer, rng, started, calls,
                    written, shredded, proc, handled, erased, runs, varve, reads >>

\* Reader::get(sequence): events_db.get in a read transaction.
StandaloneGet(d, sequence) ==
    IF Has(d, sequence) THEN [found |-> TRUE, data |-> d[sequence]]
    ELSE [found |-> FALSE]

\* The sequences a caller asks the Reader for.
GetSequences == 0..(MaxCalls + 1) \cup {U64_MAX}

\* A call of Reader::get.
StandaloneRead(sequence) ==
    /\ standalone' = [standalone EXCEPT
                         !.got = StandaloneGet(standalone.events_db, sequence)]
    /\ UNCHANGED << deletes, config, db, write_txn, notifier, writer, rng, started, calls,
                    written, shredded, proc, handled, erased, runs, varve, reads >>

(***************************************************************************)
(* Raw writes to the environment and a reopen under another master key,    *)
(* as the tests do them (encryption_test.rs, security_test.rs).            *)
(***************************************************************************)
\* Stream ids the tampering uses: one more than the writers append to, so
\* that one of them never has a key.
TamperStreams == 1..(NumStreams + 2)

\* Streams appended to while the store is tampered with.
KeyedStreams == 1..(NumStreams + 1)

\* The bytes of an AEAD output with one byte flipped: no key opens them.
FlipByte(ciphertext) == [ciphertext EXCEPT !.sealed_with = << "flipped", 0 >>]

\* A stored value cut below 16 + 12 + 16 bytes.
Truncated == [short |-> TRUE]

\* No stored value of events_log differs from what append committed.
LogIntact ==
    \A q \in DOMAIN db.events_log :
        q \in DOMAIN written /\ db.events_log[q] = written[q].stored

\* No wrapped key was copied from one slot of keystore to another.
KeysIntact == \A S \in DOMAIN db.keystore : db.keystore[S].aad = << S >>

\* One raw write transaction on a store nobody has tampered with yet, made
\* while no append call is running.
RawWrite(d) ==
    /\ AllIdle
    /\ write_txn = NoTxn
    /\ LogIntact
    /\ KeysIntact
    /\ db' = d
    /\ UNCHANGED << deletes, config, standalone, erased, runs, varve, reads, write_txn, notifier, writer, rng,
                    started, calls, written, shredded, proc, handled >>

\* The 16-byte stream-id prefix of the record at seq is overwritten.
TamperPrefix(seq, stream_id) ==
    /\ Has(db.events_log, seq)
    /\ LogIntact
    /\ db.events_log[seq].prefix # stream_id
    /\ RawWrite([db EXCEPT !.events_log[seq].prefix = stream_id])

\* A byte after the prefix of the record at seq is flipped.
TamperCiphertext(seq) ==
    /\ Has(db.events_log, seq)
    /\ LogIntact
    /\ RawWrite([db EXCEPT !.events_log[seq].rest = FlipByte(@)])

\* The record at seq is cut short.
TamperLength(seq) ==
    /\ Has(db.events_log, seq)
    /\ RawWrite([db EXCEPT !.events_log[seq] = Truncated])

\* The stored value at sequence from is written at sequence to.
Relocate(from, to) ==
    /\ Has(db.events_log, from)
    /\ from # to
    /\ RawWrite([db EXCEPT !.events_log = Put(@, to, db.events_log[from])])

\* The stored bytes of keystore[from] are written to keystore[to].
CopyKeySlot(from, to) ==
    /\ Has(db.keystore, from)
    /\ from # to
    /\ RawWrite([db EXCEPT !.keystore = Put(@, to, db.keystore[from])])

\* The store is closed and opened again with master_key in its config.
Reopen(master_key) ==
    /\ AllIdle
    /\ write_txn = NoTxn
    /\ config.master_key # master_key
    /\ config' = [config EXCEPT !.master_key = master_key]
    /\ UNCHANGED << deletes, db, erased, runs, varve, standalone, reads, write_txn, notifier, writer, rng,
                    started, calls, written, shredded, proc, handled >>

\* Mutant: opening the environment creates the databases anew.
OpenCreatesAnew(d) == EmptyDb

\* Storage::open on an existing environment: create_database opens each
\* named database with what was committed to it.
OpenStorage(d) == d

\* Every handle is dropped, which closes the environment, and the store is
\* opened again with the same configuration: new writers over what was
\* committed, and a new notifier.
CloseReopen ==
    /\ AllIdle
    /\ write_txn = NoTxn
    /\ \A w \in Writers : varve[w].pc = "idle"
    /\ reads.pc = "closed"
    /\ proc = ProcOff
    /\ Len(runs) < MaxRestarts
    /\ runs' = Append(runs, [head |-> LastSeq(db), pc |-> "closed"])
    /\ db' = OpenStorage(db)
    /\ notifier' = [value |-> 0, version |-> 0]
    /\ writer' = [w \in Writers |-> Idle]
    /\ UNCHANGED << deletes, config, standalone, erased, varve, reads, write_txn, rng, started, calls,
                    written, shredded, proc, handled >>

InitStore ==
    /\ db = EmptyDb
    /\ write_txn = NoTxn
    /\ notifier = [value |-> 0, version |-> 0]
    /\ writer = [w \in Writers |-> Idle]
    /\ rng = 0
    /\ started = 0
    /\ calls = {}
    /\ written = EmptyMap
    /\ shredded = {}
    /\ handled = << >>
    /\ erased = {}
    /\ runs = << >>
    /\ varve = [w \in Writers |-> VarveIdle]
    /\ reads = ReadsClosed
    /\ standalone = StandaloneNew
    /\ deletes = {}

Init ==
    /\ config \in Configs
    /\ InitStore
    /\ proc = ProcOff

Next ==
    \/ \E w \in Writers, s \in Streams, v \in Versions, e \in Events, f \in Faults :
          AppendTxn(w, s, v, e, f) /\ UNCHANGED varve
    \/ \E w \in Writers : AppendCommit(w)
    \/ \E w \in Writers : AppendNotify(w)
    \/ \E s \in Streams : DeleteKey(s)

Spec == Init /\ [][Next]_vars

\* One writer appending small and large events, a put that can fail, and
\* stream keys being deleted.
InitSidecar ==
    /\ config \in {c \in Configs : c.encryption_enabled => c.master_key # NoKey}
    /\ InitStore
    /\ proc = ProcOff

NextSidecar ==
    \/ \E s \in Streams, v \in Versions, e \in Events, f \in {"none", "put"} :
          AppendTxn(1, s, v, e, f) /\ UNCHANGED varve
    \/ AppendCommit(1)
    \/ AppendNotify(1)
    \/ \E s \in Streams : DeleteKey(s)

SpecSidecar == InitSidecar /\ [][NextSidecar]_vars

\* The standalone writer and reader on a store of their own.
InitStandalone ==
    /\ config = [encryption_enabled |-> FALSE, master_key |-> NoKey]
    /\ InitStore
    /\ proc = ProcOff

NextStandalone ==
    \/ \E alloc \in BOOLEAN, e \in StandaloneEvents, f \in StandaloneFaults :
          StandaloneAppend(alloc, e, f)
    \/ StandaloneReopen
    \/ \E q \in GetSequences : StandaloneRead(q)

SpecStandalone == InitStandalone /\ [][NextStandalone]_vars

\* The same store, closed and reopened between appends.
NextReopen ==
    \/ \E s \in Streams, v \in Versions, e \in Events, f \in {"none", "put"} :
          AppendTxn(1, s, v, e, f) /\ UNCHANGED varve
    \/ AppendCommit(1)
    \/ AppendNotify(1)
    \/ \E s \in Streams : DeleteKey(s)
    \/ CloseReopen

SpecReopen == InitSidecar /\ [][NextReopen]_vars

\* The same store with a caller that iterates over it.
NextIter ==
    \/ \E s \in Streams, v \in Versions, e \in Events, f \in {"none", "put"} :
          AppendTxn(1, s, v, e, f) /\ UNCHANGED varve
    \/ AppendCommit(1)
    \/ AppendNotify(1)
    \/ \E s \in Streams : DeleteKey(s)
    \/ IterOpen
    \/ IterNext
    \/ IterDrop

SpecIter == InitSidecar /\ [][NextIter]_vars

\* One writer appending each stream's next version, stream keys being
\* deleted, and a caller that iterates and makes read calls.
NextRead ==
    \/ \E s \in Streams, v \in Versions, e \in Events :
          /\ \A u \in Versions : VersionExists(db, s, u) <=> u < v
          /\ AppendTxn(1, s, v, e, "none")
          /\ UNCHANGED varve
    \/ AppendCommit(1)
    \/ AppendNotify(1)
    \/ \E s \in Streams : DeleteKey(s)
    \/ IterOpen
    \/ IterNext
    \/ IterDrop
    \/ \E c \in ReadOps : ReadCall(c)

SpecRead == InitSidecar /\ [][NextRead]_vars

\* The event the writers append while a processor runs.
SmallEvent == [value |-> "a", len |-> MAX_INLINE_SIZE]

\* A store with one processor, constructed on the fresh store, and writer
\* clones appending to stream 1.
InitProc ==
    /\ config \in {c \in Configs : c.encryption_enabled => c.master_key # NoKey}
    /\ InitStore
    /\ \E b \in BatchSizes : proc = ProcNew(b, notifier.version)

NextProc ==
    \/ \E w \in Writers, v \in Versions :
          AppendTxn(w, 1, v, SmallEvent, "none") /\ UNCHANGED varve
    \/ \E w \in Writers : AppendCommit(w)
    \/ \E w \in Writers : AppendNotify(w)
    \/ DeleteKey(1)
    \/ ProcStart
    \/ ProcHead
    \/ ProcOuter
    \/ \E handler_ok \in BOOLEAN : ProcFetch(handler_ok)
    \/ \E elapsed \in BOOLEAN : ProcDecide(elapsed)
    \/ ProcTick
    \/ ProcFinal
    \/ ProcCheck
    \/ ProcWake

SpecProc == InitProc /\ [][NextProc]_vars

\* Clones of one Varve handle appending with Auto and with Exact versions
\* to an unencrypted store.
InitAuto ==
    /\ config = [encryption_enabled |-> FALSE, master_key |-> NoKey]
    /\ InitStore
    /\ proc = ProcOff

NextAuto ==
    \/ \E w \in Writers, s \in KeyedStreams, oc \in BOOLEAN : VarveScan(w, s, oc)
    \/ \E w \in Writers : VarveAppendAuto(w, SmallEvent)
    \/ \E w \in Writers, s \in KeyedStreams, v \in ExactVersions :
          VarveAppendExact(w, s, v, SmallEvent)
    \/ \E w \in Writers : AppendCommit(w)
    \/ \E w \in Writers : AppendNotify(w)

SpecAuto == InitAuto /\ [][NextAuto]_vars

\* Clones of one Varve handle appending with Auto only: every version in
\* the store was computed by a scan.
NextRace ==
    \/ \E w \in Writers, s \in KeyedStreams, oc \in BOOLEAN : VarveScan(w, s, oc)
    \/ \E w \in Writers : VarveAppendAuto(w, SmallEvent)
    \/ \E w \in Writers : AppendCommit(w)
    \/ \E w \in Writers : AppendNotify(w)

SpecRace == InitAuto /\ [][NextRace]_vars

\* Versions a caller passes to Writer::append: any u32.
CallerVersions == 0..U32_MAX

\* Writer::append(stream_id, version, event) called on the engine's writer.
WriterAppend(w, stream_id, version, event) ==
    /\ varve[w].pc = "idle"
    /\ AppendTxn(w, stream_id, version, event, "none")
    /\ UNCHANGED varve

NextVersions ==
    \/ \E w \in Writers, s \in KeyedStreams, oc \in BOOLEAN : VarveScan(w, s, oc)
    \/ \E w \in Writers : VarveAppendAuto(w, SmallEvent)
    \/ \E w \in Writers, s \in KeyedStreams, v \in ExactVersions :
          VarveAppendExact(w, s, v, SmallEvent)
    \/ \E w \in Writers, s \in KeyedStreams, v \in CallerVersions :
          WriterAppend(w, s, v, SmallEvent)
    \/ \E w \in Writers : AppendCommit(w)
    \/ \E w \in Writers : AppendNotify(w)

\* The same handles, and callers of Writer::append with a version of their
\* own choice.
SpecVersions == InitAuto /\ [][NextVersions]_vars

\* An encrypted store, one writer, and an adversary with access to the
\* files and to the configuration.
InitTamper ==
    /\ config = [encryption_enabled |-> TRUE, master_key |-> MasterKey]
    /\ InitStore
    /\ proc = ProcOff

NextTamper ==
    \/ \E s \in KeyedStreams, v \in Versions :
          /\ \A u \in Versions : VersionExists(db, s, u) <=> u < v
          /\ \E e \in Events : AppendTxn(1, s, v, e, "none")
          /\ UNCHANGED varve
    \/ AppendCommit(1)
    \/ AppendNotify(1)
    \/ \E q \in 1..MaxCalls, s \in TamperStreams : TamperPrefix(q, s)
    \/ \E q \in 1..MaxCalls : TamperCiphertext(q)
    \/ \E q \in 1..MaxCalls : TamperLength(q)
    \/ \E q \in 1..MaxCalls, to \in 1..(MaxCalls + 1) : Relocate(q, to)
    \/ \E s \in KeyedStreams, t \in TamperStreams : CopyKeySlot(s, t)
    \/ \E k \in {MasterKey, OtherKey} : Reopen(k)

SpecTamper == InitTamper /\ [][NextTamper]_vars

\* One writer appending to stream 1 and a processor that dies and is
\* started again.
NextCrash ==
    \/ \E v \in Versions : AppendTxn(1, 1, v, SmallEvent, "none") /\ UNCHANGED varve
    \/ AppendCommit(1)
    \/ AppendNotify(1)
    \/ ProcStart
    \/ ProcHead
    \/ ProcOuter
    \/ \E handler_ok \in BOOLEAN : ProcFetch(handler_ok)
    \/ \E elapsed \in BOOLEAN : ProcDecide(elapsed)
    \/ ProcTick
    \/ ProcFinal
    \/ ProcCheck
    \/ ProcWake
    \/ ProcRestart

\* An unencrypted store with one processor constructed on it.
InitCrash ==
    /\ config = [encryption_enabled |-> FALSE, master_key |-> NoKey]
    /\ InitStore
    /\ \E b \in BatchSizes : proc = ProcNew(b, notifier.version)

SpecCrash == InitCrash /\ [][NextCrash]_vars

\* One writer appending small and large events, the processor of
\* ConsumerId followed step by step, and a second processor committing its
\* own cursor.
NextCursors ==
    \/ \E v \in Versions, e \in Events :
          AppendTxn(1, 1, v, e, "none") /\ UNCHANGED varve
    \/ AppendCommit(1)
    \/ AppendNotify(1)
    \/ ProcStart
    \/ ProcHead
    \/ ProcOuter
    \/ \E handler_ok \in BOOLEAN : ProcFetch(handler_ok)
    \/ \E elapsed \in BOOLEAN : ProcDecide(elapsed)
    \/ ProcTick
    \/ ProcFinal
    \/ ProcCheck
    \/ ProcWake
    \/ OtherCursorCommit

\* An encrypted store with the processor constructed on it.
InitCursors ==
    /\ config = [encryption_enabled |-> TRUE, master_key |-> MasterKey]
    /\ InitStore
    /\ \E b \in BatchSizes : proc = ProcNew(b, notifier.version)

SpecCursors == InitCursors /\ [][NextCursors]_vars

\* The stream ids appended to and shredded: a stream and another one.
ShredStreams == {1, 2}

\* One writer appending small and large events to several streams of an
\* encrypted store, a processor committing its cursor, and delete_key
\* called for streams with and without a key.
NextShred ==
    \/ \E s \in ShredStreams, v \in Versions, e \in Events :
          AppendTxn(1, s, v, e, "none") /\ UNCHANGED varve
    \/ AppendCommit(1)
    \/ AppendNotify(1)
    \/ OtherCursorCommit
    \/ \E s \in ShredStreams : DeleteKey(s)
    \/ \E s \in ShredStreams : DeleteAbsentKey(s)

InitShred ==
    /\ config = [encryption_enabled |-> TRUE, master_key |-> MasterKey]
    /\ InitStore
    /\ proc = ProcOff

SpecShred == InitShred /\ [][NextShred]_vars

(***************************************************************************)
(* Properties of the append path.                                          *)
(***************************************************************************)
Succeeded == {c \in calls : c.result.kind = "Ok"}

Failed == {c \in calls : c.result.kind # "Ok"}

LogKeys == DOMAIN db.events_log

\* C1: the keys of events_log are always 1..n without a gap, and once every
\* append call has returned n is the number of calls that returned success
\* and (no key having been deleted) count() returns it.
C1_LogKeysAreOneToN ==
    /\ LogKeys = 1..Cardinality(LogKeys)
    /\ AllIdle => Cardinality(LogKeys) = Cardinality(Succeeded)
    /\ (AllIdle /\ shredded = {}) =>
          count(config, db) = [ok |-> TRUE, n |-> Cardinality(Succeeded)]

C1_Witness ==
    /\ AllIdle
    /\ Cardinality(Succeeded) = 1
    /\ Failed # {}
    /\ shredded = {}
    /\ count(config, db) = [ok |-> TRUE, n |-> 1]

AppendFails ==
    \/ started' = started + 1 /\ writer' = writer
    \/ \E w \in Writers : writer[w].pc = "commit" /\ writer'[w].pc = "idle"

\* C3: a step in which append returns an error changes neither the five
\* databases nor the notifier, and leaves no write transaction open.
C3_FailedAppendChangesNothing ==
    [][AppendFails => (db' = db /\ notifier' = notifier /\ write_txn' = NoTxn)]_vars

\* A put failed after a blob and a wrapped key were written in the
\* transaction, a commit failed, and neither left anything behind.
C3_Witness ==
    /\ config.encryption_enabled
    /\ \E c \in Failed : c.fault = "put" /\ c.value = "b" /\ c.result.kind = "Heed"
    /\ \E c \in Failed : c.fault = "commit" /\ c.result.kind = "Heed"
    /\ started = 2
    /\ db = EmptyDb

\* The configuration lets an append run to its commit.
Usable == config.encryption_enabled => config.master_key # NoKey

CallsFor(s, v) == {c \in calls : c.stream_id = s /\ c.version = v}

\* C4: of the append calls for one (stream_id, version) at most one
\* succeeds, a call that no fault hit fails only with ConcurrencyConflict,
\* one of them succeeds when any ran without a fault, no two log entries
\* are written for the same (stream_id, version), and the write mutex is
\* only ever held by a call that is about to commit.
C4_OneWinnerPerVersion ==
    /\ \A s \in Streams, v \in Versions :
          /\ Cardinality(CallsFor(s, v) \cap Succeeded) <= 1
          /\ \A c \in CallsFor(s, v) \cap Failed :
                (c.fault = "none" /\ Usable) => c.result.kind = "ConcurrencyConflict"
          /\ (Usable /\ \E c \in CallsFor(s, v) : c.fault = "none") =>
                \/ CallsFor(s, v) \cap Succeeded # {}
                \/ \E w \in Writers :
                      /\ writer[w].pc = "notify"
                      /\ writer[w].stream_id = s /\ writer[w].version = v
    /\ \A p, q \in DOMAIN written :
          (written[p].stream_id = written[q].stream_id
             /\ written[p].version = written[q].version) => p = q
    /\ \A w \in Writers : (write_txn.owner = w) <=> (writer[w].pc = "commit")

C4_Witness ==
    \E s \in Streams, v \in Versions :
        /\ Cardinality(CallsFor(s, v) \cap Succeeded) = 1
        /\ Cardinality({c \in CallsFor(s, v) : c.fault = "none"}) = 2
        /\ AllIdle

\* C5: stream_index and events_log are in bijection: the entry committed at
\* sequence q for (stream_id, version) is indexed under exactly that key,
\* every index entry points into the log, and no two point to one sequence.
C5_IndexLogBijection ==
    /\ DOMAIN written = LogKeys
    /\ \A q \in LogKeys :
          {k \in DOMAIN db.stream_index : db.stream_index[k] = q}
             = {StreamKey(written[q].stream_id, written[q].version)}
    /\ \A k \in DOMAIN db.stream_index : db.stream_index[k] \in LogKeys

C5_Witness ==
    /\ Cardinality(LogKeys) = 2
    /\ Cardinality(DOMAIN db.stream_index) = 2
    /\ \E s \in Streams : Has(db.stream_index, StreamKey(s, 2))
                            /\ Has(db.stream_index, StreamKey(s, 1))
                            /\ db.stream_index[StreamKey(s, 2)] < db.stream_index[StreamKey(s, 1)]

C7_RoundTrip ==
    \A q \in DOMAIN written :
        written[q].stream_id \notin shredded =>
            /\ get(config, db, q) = ReadSome(written[q].event)
            /\ get_by_stream(config, db, written[q].stream_id, written[q].version)
                  = ReadSome(written[q].event)

C7_Witness ==
    /\ config.encryption_enabled
    /\ \E p, q \in DOMAIN written :
          /\ written[p].stream_id \notin shredded
          /\ written[q].stream_id \notin shredded
          /\ written[p].event.len > MAX_INLINE_SIZE
          /\ written[q].event.len <= MAX_INLINE_SIZE
          /\ get(config, db, p) = ReadSome(written[p].event)
          /\ get(config, db, q) = ReadSome(written[q].event)

C7_WitnessPlain ==
    /\ ~config.encryption_enabled
    /\ \E p, q \in DOMAIN written :
          /\ written[p].event.len > MAX_INLINE_SIZE
          /\ written[q].event.len <= MAX_INLINE_SIZE
          /\ get(config, db, p) = ReadSome(written[p].event)
          /\ get(config, db, q) = ReadSome(written[q].event)

(***************************************************************************)
(* Properties of the processor.                                            *)
(***************************************************************************)
Cursor == LoadCursor(db, ConsumerId)

\* C8: the sequences passed to the handler are 1, 2, ..., k in that order,
\* and whenever process_backlog has returned (the processor is between
\* drains) the persisted cursor equals the number of events handled.
C8_InOrderDelivery ==
    /\ \A i \in 1..Len(handled) : handled[i] = i
    /\ proc.pc \in {"head", "check", "wait"} =>
          /\ proc.current_seq = Len(handled)
          /\ Cursor = Len(handled)

\* Two events drained in two batches while a second writer was appending.
C8_Witness ==
    /\ proc.pc = "wait"
    /\ proc.batch_size = 1
    /\ handled = << 1, 2 >>
    /\ Cursor = 2

\* The processor is parked in rx.changed() and nothing but a further append
\* can wake it.
Parked == AllIdle /\ proc.pc = "wait" /\ proc.seen = notifier.version

\* C9: every committed event is eventually passed to the handler with no
\* further append: when the processor is parked and every append has
\* returned, no committed event is unprocessed.
C9_NoCommittedEventLeftBehind ==
    Parked => proc.current_seq = LastSeq(db)

\* C10: when run() has returned with the error of the event at sequence k
\* (from the handler or from the reader), the persisted cursor is below k.
C10_CursorBelowFailedEvent ==
    proc.pc = "stopped" =>
        /\ proc.result # "running"
        /\ proc.failed_at >= 1
        /\ Cursor < proc.failed_at

\* The reader failed on event 2 after event 1 was handled and committed.
C10_Witness ==
    /\ proc.pc = "stopped"
    /\ proc.result \in {"KeyNotFound", "DecryptionError"}
    /\ proc.failed_at = 2
    /\ Cursor = 1

C10_WitnessHandler ==
    /\ proc.pc = "stopped"
    /\ proc.result = "HandlerError"
    /\ proc.failed_at = 2
    /\ Cursor = 1

\* The persisted cursor when run i of the processor started; run
\* Len(runs) + 1 is the current one.
StartCursor(i) == IF i = 1 THEN 0 ELSE runs[i - 1].cursor

\* The sequences run i passed to the handler, in order.
RunHandled(i) == IF i <= Len(runs) THEN runs[i].handled ELSE handled

\* C11: a run that starts with persisted cursor c passes c + 1, c + 2, ...
\* to the handler and nothing at or below c; the cursor a run leaves behind
\* lies between c and the last sequence it handled, and equals that last
\* sequence when the run died between drains, so that the next run repeats
\* only what was handled after the last cursor commit; and every sequence
\* at or below the persisted cursor was handled by some run.
C11_RestartResumesAfterCursor ==
    /\ \A i \in 1..(Len(runs) + 1) : \A j \in 1..Len(RunHandled(i)) :
          RunHandled(i)[j] = StartCursor(i) + j
    /\ \A i \in 1..Len(runs) :
          /\ StartCursor(i) <= runs[i].cursor
          /\ runs[i].cursor <= StartCursor(i) + Len(runs[i].handled)
          /\ runs[i].pc \in {"head", "check", "wait"} =>
                runs[i].cursor = StartCursor(i) + Len(runs[i].handled)
          /\ \A j \in 1..Len(RunHandled(i + 1)) :
                RunHandled(i + 1)[j] > runs[i].cursor
    /\ StartCursor(Len(runs) + 1) <= Cursor
    /\ \A q \in 1..Cursor : \E i \in 1..(Len(runs) + 1) :
          \E j \in 1..Len(RunHandled(i)) : RunHandled(i)[j] = q

\* The first run handled events 1 and 2 and died with the cursor at 1; the
\* second run was handed event 2 again.
C11_Witness ==
    /\ Len(runs) = 1
    /\ runs[1].handled = << 1, 2 >>
    /\ runs[1].cursor = 1
    /\ handled = << 2 >>

(***************************************************************************)
(* Properties of the notifier.                                             *)
(***************************************************************************)
\* C12: the value of the watch channel, which is what borrow() hands to any
\* subscriber, never decreases from one state to the next.
C12_NotifierNeverDecreases ==
    [][notifier'.value >= notifier.value]_vars

\* C13: once every append call has returned, the value of the shared watch
\* channel, which every live subscriber then observes, is the highest
\* committed global sequence.
C13_NewestValueNotLost ==
    AllIdle => notifier.value = LastSeq(db)

(***************************************************************************)
(* Properties of encryption and of the blob sidecar.                       *)
(***************************************************************************)
\* A read returned an event.
ReadSucceeds(r) == r.ok /\ r.found

\* C14: an event whose stream key was deleted after it was appended is
\* never read again, by sequence or by (stream_id, version): not with the
\* master key still configured, not after a later append to the stream
\* created a fresh key for it.
C14_ShreddedStaysUnreadable ==
    \A q \in erased :
        /\ ~ReadSucceeds(get(config, db, q))
        /\ ~ReadSucceeds(get_by_stream(config, db, written[q].stream_id,
                                        written[q].version))

\* Event 1 was shredded, a later append to its stream created a fresh key
\* under which event 2 reads back, and event 1 fails to decrypt.
C14_Witness ==
    /\ config.master_key = MasterKey
    /\ 1 \in erased
    /\ 2 \in DOMAIN written \ erased
    /\ written[2].stream_id = written[1].stream_id
    /\ Has(db.keystore, written[1].stream_id)
    /\ ReadSucceeds(get(config, db, 2))
    /\ get(config, db, 1) = ReadErr("DecryptionError")

\* The wrapped key in keystore[S] was wrapped under a master key other than
\* the configured one, or for a stream other than S.
ForeignSlot(S) ==
    \/ db.keystore[S].sealed_with # config.master_key
    \/ db.keystore[S].aad # << S >>

\* C15: a wrapped key that was wrapped under another master key, or for
\* another stream than the slot it is stored in, yields no key, neither to
\* a read nor to an append, and no event of that stream is read.
C15_WrappedKeyBoundToMasterAndStream ==
    \A S \in DOMAIN db.keystore : ForeignSlot(S) =>
        /\ ~get_key_with_txn(config, db, S).ok
        /\ ~get_or_create_key_with_txn(config, db, S, FreshKey).ok
        /\ \A q \in DOMAIN written :
              written[q].stream_id = S => ~ReadSucceeds(get(config, db, q))

\* The wrapped key of one stream was copied into the slot of another stream
\* that has an event, under the right master key; the event is not read.
C15_Witness ==
    /\ config.master_key = MasterKey
    /\ \E S \in DOMAIN db.keystore :
          /\ db.keystore[S].sealed_with = MasterKey
          /\ db.keystore[S].aad # << S >>
          /\ \E q \in DOMAIN written :
                /\ written[q].stream_id = S
                /\ db.events_log[q] = written[q].stored
                /\ get(config, db, q) = ReadErr("DecryptionError")

\* The store was reopened under another master key; the untouched wrapped
\* key yields nothing and the untouched event is not read.
C15_WitnessMasterKey ==
    /\ config.master_key = OtherKey
    /\ \E q \in DOMAIN written :
          /\ db.events_log[q] = written[q].stored
          /\ db.keystore[written[q].stream_id].sealed_with = MasterKey
          /\ db.keystore[written[q].stream_id].aad = << written[q].stream_id >>
          /\ get(config, db, q) = ReadErr("DecryptionError")

\* The stored value at sequence q is not the one append committed there.
Changed(q) == q \notin DOMAIN written \/ db.events_log[q] # written[q].stored

\* Error::DecryptionError is the spec's DecryptionFailed; EventValidation
\* and InvalidEncryptedEventLength are its CorruptRecord.
DecryptionFailed == {"DecryptionError"}

CorruptRecord == {"EventValidation", "InvalidEncryptedEventLength"}

ReadFailsWith(r, errs) == ~r.ok /\ r.err \in errs

\* C16, as stated: reading a changed or relocated encrypted record fails
\* with DecryptionFailed or CorruptRecord.
C16_TamperFailsAsStated ==
    \A q \in DOMAIN db.events_log : Changed(q) =>
        ReadFailsWith(get(config, db, q), DecryptionFailed \cup CorruptRecord)

\* C16, amended: reading a changed or relocated encrypted record never
\* returns an event; it fails with DecryptionFailed, with CorruptRecord, or
\* with KeyNotFound when the prefix names a stream that has no key.
C16_TamperNeverReadsBack ==
    \A q \in DOMAIN db.events_log : Changed(q) =>
        LET r == get(config, db, q) IN
        /\ ReadFailsWith(r, DecryptionFailed \cup CorruptRecord \cup {"KeyNotFound"})
        /\ r.err = "KeyNotFound" =>
              ~Has(db.keystore, db.events_log[q].prefix)

\* The prefix of a record was changed to a stream that has its own key.
C16_Witness ==
    \E q \in DOMAIN written :
        /\ Changed(q)
        /\ "prefix" \in DOMAIN db.events_log[q]
        /\ db.events_log[q].prefix # written[q].stream_id
        /\ Has(db.keystore, db.events_log[q].prefix)
        /\ ~ForeignSlot(db.events_log[q].prefix)
        /\ get(config, db, q) = ReadErr("DecryptionError")

\* A stored value was copied to another sequence number.
C16_WitnessRelocated ==
    \E q \in DOMAIN db.events_log \ DOMAIN written :
        /\ \E p \in DOMAIN written : db.events_log[q] = written[p].stored
        /\ get(config, db, q) = ReadErr("DecryptionError")

\* The values stored in a database.
Values(f) == {f[k] : k \in DOMAIN f}

\* The stored value is, or carries in the clear, the given bytes.
Holds(stored, bytes) ==
    \/ stored = bytes
    \/ "archive" \in DOMAIN stored /\ stored.archive = "payload" /\ stored.data = bytes

\* C17: with encryption enabled, the serialized bytes of no committed event
\* are stored in the clear in events_log, blobs or keystore (stream_index
\* holds sequence numbers only).
C17_NoPlaintextStored ==
    config.encryption_enabled =>
        \A q \in DOMAIN written :
            \A stored \in Values(db.events_log) \cup Values(db.blobs)
                             \cup Values(db.keystore) :
                ~Holds(stored, Serialize(written[q].event))

\* The payload envelope of the log entry at sequence q.
Envelope(q) ==
    IF config.encryption_enabled THEN db.events_log[q].rest.msg ELSE db.events_log[q]

\* C18: in every committed state each log entry whose envelope is
\* BlobRef(h) has blobs[h] present and equal to the serialized event that
\* was appended, and no step changes or removes an entry of blobs.
C18_BlobRefsResolve ==
    /\ [](\A q \in LogKeys :
            Envelope(q).variant = "BlobRef" =>
                /\ Has(db.blobs, Envelope(q).data)
                /\ db.blobs[Envelope(q).data] = Serialize(written[q].event))
    /\ [][\A h \in DOMAIN db.blobs :
            Has(db'.blobs, h) /\ db'.blobs[h] = db.blobs[h]]_vars

\* A blob-routed event was committed and an inline one after it.
C18_Witness ==
    /\ LogKeys = {1, 2}
    /\ Envelope(1).variant = "BlobRef"
    /\ Has(db.blobs, Envelope(1).data)
    /\ Envelope(2).variant = "Inline"

\* The committed events whose serialized form exceeds the inline threshold.
LargeSeqs == {q \in DOMAIN written : IsLarge(Serialize(written[q].event))}

\* C19: blobs holds exactly one entry per distinct serialized form above
\* the inline threshold, however many appends carried it; each such log
\* entry references that entry, and reads back unless its key was deleted.
C19_OneBlobPerContent ==
    /\ Cardinality(DOMAIN db.blobs)
          = Cardinality({Serialize(written[q].event) : q \in LargeSeqs})
    /\ \A q \in LargeSeqs :
          /\ Envelope(q) = BlobRef(Sha256(Serialize(written[q].event)))
          /\ Has(db.blobs, Envelope(q).data)
          /\ q \notin erased => get(config, db, q) = ReadSome(written[q].event)

\* Two appends of the same large event: one blob, two references, both
\* read back.
C19_Witness ==
    /\ LargeSeqs = {1, 2}
    /\ written[1].event = written[2].event
    /\ Cardinality(DOMAIN db.blobs) = 1
    /\ Envelope(1) = Envelope(2)
    /\ get(config, db, 1) = ReadSome(written[1].event)
    /\ get(config, db, 2) = ReadSome(written[2].event)

(***************************************************************************)
(* Properties of Varve::append with ExpectedVersion::Auto.                 *)
(***************************************************************************)
\* The versions indexed under exactly stream_id in a set of index keys.
VersionsOf(keys, stream_id) == {k[2] : k \in {x \in keys : x[1] = stream_id}}

\* max + 1 over those versions, 1 for a stream without events.
NextVersion(keys, stream_id) ==
    IF VersionsOf(keys, stream_id) = {} THEN 1
    ELSE SetMax(VersionsOf(keys, stream_id)) + 1

\* The versions a prefix scan yields, in the order it yields them.
ScanVersions(d, stream_id) ==
    LET iter == prefix_iter(d, to_be_bytes(stream_id, StreamIdBytes)) IN
    [i \in 1..Len(iter) |-> VersionOf(iter[i])]

\* The prefix scan yields exactly the stream's versions, ascending.
PrefixScanAscending ==
    \A s \in KeyedStreams :
        LET vs == ScanVersions(db, s) IN
        /\ {vs[i] : i \in 1..Len(vs)} = VersionsOf(DOMAIN db.stream_index, s)
        /\ \A i \in 1..(Len(vs) - 1) : vs[i] < vs[i + 1]

\* C20: an Auto append never panics and goes to Writer::append with the
\* version max + 1 of exactly its stream id in the index it scanned,
\* whatever the other streams hold and whatever gaps the stream has; and
\* the prefix scan yields exactly that stream's versions in ascending order.
C20_AutoAppendsAtMaxPlusOne ==
    /\ PrefixScanAscending
    /\ \A w \in Writers :
          /\ varve[w].pc # "panicked"
          /\ varve[w].pc = "scanned" =>
                varve[w].version = NextVersion(varve[w].scanned, varve[w].stream_id)

\* The same for streams whose highest version is below u32::MAX.
C20_AutoBelowLimit ==
    /\ PrefixScanAscending
    /\ \A w \in Writers :
          (varve[w].pc # "idle"
             /\ U32_MAX \notin VersionsOf(varve[w].scanned, varve[w].stream_id)) =>
                /\ varve[w].pc = "scanned"
                /\ varve[w].version = NextVersion(varve[w].scanned, varve[w].stream_id)

\* Two Auto appends scanned: one on a stream with a gap below its only
\* version, one on an empty stream beside it.
C20_WitnessBelowLimit ==
    \E w, x \in Writers :
        /\ varve[w].pc = "scanned"
        /\ VersionsOf(varve[w].scanned, varve[w].stream_id) = {MaxVersion}
        /\ varve[w].version = MaxVersion + 1
        /\ varve[x].pc = "scanned"
        /\ varve[x].stream_id # varve[w].stream_id
        /\ varve[x].scanned = varve[w].scanned
        /\ varve[x].version = 1


(***************************************************************************)
(* Auto appends racing on one stream.                                      *)
(***************************************************************************)
\* Writer w is inside Writer::append for (s, v), past the version check.
Appending(w, s, v) ==
    writer[w].pc \in {"commit", "notify"}
        /\ writer[w].stream_id = s /\ writer[w].version = v

\* The Auto append of handle w has scanned and another append to its stream
\* was committed since.
Overtaken(w) ==
    /\ varve[w].pc = "scanned"
    /\ VersionsOf(DOMAIN db.stream_index, varve[w].stream_id)
          # VersionsOf(varve[w].scanned, varve[w].stream_id)

\* C21: when Auto appends to one stream scanned the same maximum, at most
\* one of them gets past the version check, it commits at the next version
\* of the stream, every other one fails with ConcurrencyConflict and
\* writes nothing, a conflict is only reported for a version that one of
\* them won, and no version of a stream is written twice or overwritten.
C21_RacingAutoOneWinner ==
    /\ \A s \in KeyedStreams, v \in 0..U32_MAX :
          /\ Cardinality(CallsFor(s, v) \cap Succeeded)
                + Cardinality({w \in Writers : Appending(w, s, v)}) <= 1
          /\ \A c \in CallsFor(s, v) \cap Failed :
                /\ c.result.kind = "ConcurrencyConflict"
                /\ VersionExists(db, s, v)
                /\ \/ CallsFor(s, v) \cap Succeeded # {}
                   \/ \E w \in Writers : Appending(w, s, v)
    /\ \A w \in Writers :
          (varve[w].pc = "scanned"
             /\ VersionExists(db, varve[w].stream_id, varve[w].version)) =>
                LET r == AppendBody(config, db, varve[w].stream_id,
                                    varve[w].version, SmallEvent, "none", FreshKey)
                IN  ~r.ok /\ r.err = "ConcurrencyConflict" /\ r.db = db
    /\ \A s \in KeyedStreams :
          VersionsOf(DOMAIN db.stream_index, s) =
              1..Cardinality(VersionsOf(DOMAIN db.stream_index, s))
    /\ \A q \in DOMAIN written :
          db.stream_index[StreamKey(written[q].stream_id, written[q].version)] = q
    /\ \A p, q \in DOMAIN written :
          (written[p].stream_id = written[q].stream_id
             /\ written[p].version = written[q].version) => p = q

\* Two Auto appends to one stream both computed version 1; both returned,
\* one with success and one with ConcurrencyConflict, and the stream holds
\* version 1 once.
C21_Witness ==
    \E s \in KeyedStreams :
        /\ AllIdle
        /\ \A w \in Writers : varve[w].pc = "idle"
        /\ \E c \in CallsFor(s, 1) : c.result.kind = "Ok"
        /\ \E c \in CallsFor(s, 1) : c.result.kind = "ConcurrencyConflict"
        /\ VersionsOf(DOMAIN db.stream_index, s) = {1}
        /\ Cardinality(DOMAIN written) = 1

\* A step in which Writer::append, called by an Auto append, returns
\* ConcurrencyConflict.
AutoConflicts(w) ==
    /\ varve[w].pc = "scanned" /\ varve'[w].pc = "idle"
    /\ writer'[w].pc = "idle"
    /\ \E c \in calls' :
          /\ c.stream_id = varve[w].stream_id /\ c.version = varve[w].version
          /\ c.result.kind = "ConcurrencyConflict"

C23_NoEventAtVersionZero ==
    /\ \A k \in DOMAIN db.stream_index : k[2] # 0
    /\ \A q \in DOMAIN written : written[q].version # 0
    /\ \A s \in KeyedStreams : get_by_stream(config, db, s, 0) = ReadNone


(***************************************************************************)
(* Read transactions and iterators.                                        *)
(***************************************************************************)
\* Sequence q resolves fully in the snapshot d: log entry, index entry,
\* blob of a large event, key of an encrypted stream.
ResolvesIn(d, q) ==
    /\ Has(d.events_log, q)
    /\ Has(d.stream_index, StreamKey(written[q].stream_id, written[q].version))
    /\ d.stream_index[StreamKey(written[q].stream_id, written[q].version)] = q
    /\ IsLarge(Serialize(written[q].event)) =>
          Has(d.blobs, Sha256(Serialize(written[q].event)))
    /\ config.encryption_enabled => Has(d.keystore, written[q].stream_id)

\* The errors of reading an event whose stream key was deleted.
Shredded == {"KeyNotFound", "DecryptionError"}

\* C24: an open Iter and its read transaction observe exactly the events
\* committed before iter() was called, whatever commits after it: the
\* items returned are the events 1, 2, ... in order, each resolving fully
\* in the snapshot; get in the transaction finds every sequence committed
\* before the open and none committed after it; the iterator ends after
\* the last sequence committed before the open; and it fails only at an
\* event whose stream key was deleted before the open, with KeyNotFound or
\* (the stream having a new key) DecryptionError.
C24_SnapshotReads ==
    reads.pc # "closed" =>
        LET n == Len(reads.items)
            snap == reads.txn.db
        IN  /\ reads.current_seq = n + 1
            /\ n <= reads.head
            /\ \A i \in 1..n :
                  /\ reads.items[i] = written[i].event
                  /\ ResolvesIn(snap, i)
            /\ \A q \in 1..reads.head :
                  IF q \in reads.gone
                  THEN ReadFailsWith(get(config, snap, q), Shredded)
                  ELSE get(config, snap, q) = ReadSome(written[q].event)
            /\ \A q \in (DOMAIN written) \ (1..reads.head) :
                  get(config, snap, q) = ReadNone
            /\ reads.pc = "ended" => n = reads.head
            /\ reads.pc = "failed" =>
                  (n + 1) \in reads.gone /\ reads.err \in Shredded

\* An Iter opened after a large event was committed returned it and ended,
\* while a second event was committed and the first one's key deleted.
C24_Witness ==
    /\ reads.pc = "ended"
    /\ reads.head = 1
    /\ reads.items = << [value |-> "b", len |-> MAX_INLINE_SIZE + 1] >>
    /\ DOMAIN db.events_log = {1, 2}
    /\ config.encryption_enabled
    /\ 1 \in erased

\* An Iter opened after a stream key was deleted fails at that event.
C24_WitnessShredded ==
    /\ reads.pc = "failed"
    /\ reads.items = << >>
    /\ reads.gone = {1}


\* A step of a read operation: iter(), next(), the drop of an Iter, or a
\* read call.
ReadStep == reads' # reads

\* C26: a step of a read operation (Reader::get, get_by_stream, get_one,
\* count, collect_events, iter and its next, KeyManager::get_key) leaves
\* the five databases, the notifier and the write transaction as they
\* were, also when the operation returns an error.
C26_ReadsChangeNothing ==
    [][ReadStep => (db' = db /\ notifier' = notifier /\ write_txn' = write_txn)]_vars

\* A read call failed and an Iter failed on a store of two events, one of
\* them shredded, and nothing but the appends and the deletion is in the
\* databases.
C26_Witness ==
    /\ reads.last = [op |-> "collect_events", ok |-> FALSE]
    /\ reads.pc = "failed"
    /\ DOMAIN db.events_log = {1, 2}
    /\ \A q \in {1, 2} : db.events_log[q] = written[q].stored
    /\ db.consumer_cursors = EmptyMap
    /\ notifier.value = 2


(***************************************************************************)
(* Persistence across close and reopen.                                    *)
(***************************************************************************)
\* C25: whether or not the store was closed and reopened since, every
\* committed event is stored unchanged at its sequence, indexed under its
\* (stream_id, version), and (its key not having been deleted) read back
\* by get and get_by_stream; an append that is about to commit was
\* assigned the head of the log plus one, a sequence no entry has; and
\* every sequence committed before a reopen is still in the log.
C25_ReopenKeepsEvents ==
    /\ \A q \in DOMAIN written :
          /\ Has(db.events_log, q)
          /\ db.events_log[q] = written[q].stored
          /\ Has(db.stream_index, StreamKey(written[q].stream_id, written[q].version))
          /\ db.stream_index[StreamKey(written[q].stream_id, written[q].version)] = q
          /\ q \notin erased =>
                /\ get(config, db, q) = ReadSome(written[q].event)
                /\ get_by_stream(config, db, written[q].stream_id,
                                 written[q].version) = ReadSome(written[q].event)
    /\ \A w \in Writers :
          writer[w].pc = "commit" =>
              /\ writer[w].new_seq = LastSeq(db) + 1
              /\ ~Has(db.events_log, writer[w].new_seq)
    /\ \A i \in 1..Len(runs) :
          /\ LastSeq(db) >= runs[i].head
          /\ \A q \in 1..runs[i].head : q \in DOMAIN written

\* A large event was committed, the store closed and reopened, and the
\* next append committed at sequence 2; both read back.
C25_Witness ==
    /\ Len(runs) = 1
    /\ runs[1].head = 1
    /\ DOMAIN db.events_log = {1, 2}
    /\ erased = {}
    /\ written[1].event.value = "b"
    /\ get(config, db, 1) = ReadSome(written[1].event)
    /\ get(config, db, 2) = ReadSome(written[2].event)


(***************************************************************************)
(* The processor's suspension points.                                      *)
(***************************************************************************)
\* run() is outside process_backlog: before it, between two calls of it,
\* awaiting rx.changed(), or returned.
OutsideBacklog == proc.pc \in {"start", "head", "check", "wait", "stopped"}

\* C27: the processor holds no read transaction while it awaits the
\* notifier, nor anywhere else outside the synchronous process_backlog,
\* the only places where the task can be suspended.
C27_NoReadTxnWhileSuspended ==
    (proc.pc # "off" /\ OutsideBacklog) => proc.read_txn = NoReadTxn

\* The processor awaits the notifier after a drain of two events whose
\* snapshot did not end, so the read transaction lived until the return.
C27_Witness ==
    /\ proc.pc = "wait"
    /\ handled = << 1, 2 >>
    /\ ~proc.reached_snapshot_end
    /\ proc.read_txn = NoReadTxn


\* A step in which the handler is given an event.
Handles == handled' # handled

\* C29: once batch_timeout has elapsed since the last cursor commit and an
\* event was handled since, no further event is handled before the cursor
\* is committed.
C29_TimeoutStopsFetching ==
    [][Handles => ~(proc.timed_out /\ proc.pending_updates > 0)]_vars

\* C30: while the processor awaits the notifier the persisted cursor is the
\* sequence of the last event it handled (0 when it handled none and no
\* cursor was stored), and nothing handled is pending.
C30_CursorAtLastHandledWhenWaiting ==
    proc.pc = "wait" =>
        /\ proc.pending_updates = 0
        /\ Cursor = proc.current_seq
        /\ Cursor = IF handled = << >> THEN 0 ELSE handled[Len(handled)]

\* The processor awaits the notifier after it handled one event with a
\* batch size of two: the batch never filled.
C30_Witness ==
    /\ proc.pc = "wait"
    /\ proc.batch_size = 2
    /\ handled = << 1 >>
    /\ Cursor = 1


(***************************************************************************)
(* The standalone writer's sequences.                                      *)
(***************************************************************************)
\* C28: the successful appends of the standalone writer hold the sequences
\* 0, 1, 2, ... in call order: get(i) returns the bytes of the i-th of
\* them for 0 <= i < n, and no data for every i >= n, u64::MAX included.
C28_SequencesFromZero ==
    LET n == Len(standalone.appended) IN
    /\ DOMAIN standalone.events_db = 0..(n - 1)
    /\ \A i \in 0..(n - 1) :
          StandaloneGet(standalone.events_db, i) =
              [found |-> TRUE, data |-> standalone.appended[i + 1]]
    /\ \A i \in GetSequences :
          i >= n => StandaloneGet(standalone.events_db, i) = [found |-> FALSE]


(***************************************************************************)
(* Properties of the inline / blob routing of append.                      *)
(***************************************************************************)
\* The committed events whose serialized form is at most 2048 bytes long.
InlineSeqs == {q \in DOMAIN written : Serialize(written[q].event).len <= 2048}

\* C31: the log entry of a committed append holds Inline(serialized) exactly
\* when the serialized event is at most 2048 bytes long (2048 is inline,
\* 2049 is not); otherwise it holds only BlobRef(digest) and blobs[digest]
\* holds the serialized bytes.  blobs has entries for the digests of the
\* larger events only, and committing an inline append leaves blobs as it was.
C31_InlineAtMostThreshold ==
    /\ [](/\ \A q \in LogKeys :
               /\ q \in DOMAIN written
               /\ Envelope(q).variant = "Inline" <=> q \in InlineSeqs
               /\ q \in InlineSeqs =>
                     Envelope(q) = Inline(Serialize(written[q].event))
               /\ q \notin InlineSeqs =>
                     /\ Envelope(q) = BlobRef(Sha256(Serialize(written[q].event)))
                     /\ Has(db.blobs, Sha256(Serialize(written[q].event)))
                     /\ db.blobs[Sha256(Serialize(written[q].event))]
                           = Serialize(written[q].event)
          /\ DOMAIN db.blobs
                = {Sha256(Serialize(written[q].event)) :
                      q \in DOMAIN written \ InlineSeqs})
    /\ [][\A q \in (DOMAIN written') \ DOMAIN written :
             Serialize(written'[q].event).len <= 2048 => db'.blobs = db.blobs]_vars

\* An event of 2048 serialized bytes was committed inline and one of 2049
\* bytes after it went to blobs.
C31_Witness ==
    /\ LogKeys = {1, 2}
    /\ written[1].event.len = 2048
    /\ Envelope(1).variant = "Inline"
    /\ written[2].event.len = 2049
    /\ Envelope(2).variant = "BlobRef"
    /\ DOMAIN db.blobs = {Envelope(2).data}


(***************************************************************************)
(* Properties of the notifier against the committed log.                   *)
(***************************************************************************)
\* C32: the notifier value never exceeds the highest sequence committed in
\* events_log, and every sequence 1..value is committed; a send publishes a
\* sequence that the committed log already held before the send; and a
\* processor that observed head h and then opened its read transaction
\* finds every sequence 1..h in that transaction.
C32_PublishedAfterCommit ==
    /\ [](/\ notifier.value <= LastSeq(db)
          /\ \A q \in 1..notifier.value : Has(db.events_log, q)
          /\ (proc.pc # "off" /\ proc.read_txn.open) =>
                /\ proc.target_seq <= LastSeq(proc.read_txn.db)
                /\ \A q \in 1..proc.target_seq :
                      Has(proc.read_txn.db.events_log, q)
                /\ ~proc.reached_snapshot_end)
    /\ [][notifier' # notifier =>
             /\ Has(db.events_log, notifier'.value)
             /\ db' = db]_vars

\* Two sequences were published; the processor observed head 2 and holds a
\* read transaction that contains both.
C32_Witness ==
    /\ notifier.value = 2
    /\ LogKeys = {1, 2}
    /\ proc.pc = "inner"
    /\ proc.read_txn.open
    /\ proc.target_seq = 2
    /\ DOMAIN proc.read_txn.db.events_log = {1, 2}


(***************************************************************************)
(* Properties of stream keys created by append.                            *)
(***************************************************************************)
\* The committed contents and the snapshot of the caller's open Iter.
Snapshots == {db} \cup (IF reads.txn.open THEN {reads.txn.db} ELSE {})

\* The stream key that the keystore of d holds, unwrapped, for stream_id.
StoredKey(d, stream_id) ==
    decrypt(config.master_key, d.keystore[stream_id], << stream_id >>)

\* C33: with encryption on, every committed state and every read snapshot
\* that holds an event of stream S holds keystore[S] as well, and the event
\* is sealed with the key stored there, unless the key of S was deleted
\* after the event was committed; no step replaces a stored key by another,
\* and a commit that adds an event to a stream with a stored key leaves the
\* keystore as it was.
C33_KeyCommittedWithFirstEvent ==
    /\ [](config.encryption_enabled =>
            \A d \in Snapshots : \A q \in DOMAIN d.events_log :
                q \notin erased =>
                    /\ Has(d.keystore, d.events_log[q].prefix)
                    /\ StoredKey(d, d.events_log[q].prefix).ok
                    /\ StoredKey(d, d.events_log[q].prefix).msg
                          = d.events_log[q].rest.sealed_with)
    /\ [][config.encryption_enabled =>
             /\ \A s \in DOMAIN db.keystore :
                   Has(db'.keystore, s) => db'.keystore[s] = db.keystore[s]
             /\ \A q \in (DOMAIN db'.events_log) \ DOMAIN db.events_log :
                   Has(db.keystore, db'.events_log[q].prefix) =>
                       db'.keystore = db.keystore]_vars

\* Two events of one stream are committed under the key that the first
\* append stored, and an Iter opened in between holds the first event and
\* the key.
C33_Witness ==
    /\ config.encryption_enabled
    /\ erased = {}
    /\ LogKeys = {1, 2}
    /\ written[1].stream_id = written[2].stream_id
    /\ Has(db.keystore, written[1].stream_id)
    /\ db.events_log[1].rest.sealed_with = StoredKey(db, written[1].stream_id).msg
    /\ db.events_log[2].rest.sealed_with = db.events_log[1].rest.sealed_with
    /\ reads.txn.open
    /\ DOMAIN reads.txn.db.events_log = {1}
    /\ reads.txn.db.keystore = db.keystore


(***************************************************************************)
(* Failed appends of the standalone writer.                                *)
(***************************************************************************)
\* A call of Writer::append or append_alloc returns an error.
StandaloneAppendFails ==
    /\ standalone'.attempts = standalone.attempts + 1
    /\ standalone'.appended = standalone.appended

\* C34: an append of the standalone writer that fails (the event does not
\* fit the buffer, the put is rejected, or the commit fails) stores nothing
\* and leaves the writer's sequence where it was, so that the next
\* successful append is stored at that sequence.
C34_FailedAppendKeepsSequence ==
    [][StandaloneAppendFails =>
          /\ standalone'.events_db = standalone.events_db
          /\ standalone'.sequence = standalone.sequence]_vars


(***************************************************************************)
(* A standalone writer opened on a store that holds events.                *)
(***************************************************************************)
\* A call of Writer::append or append_alloc that nothing outside the writer
\* makes fail: the event fits the buffer and no put or commit fault occurs.
\* The step records one more attempt; it succeeded if appended grew.
StandaloneAppendSucceeds ==
    /\ standalone'.attempts = standalone.attempts + 1
    /\ Len(standalone'.appended) = Len(standalone.appended) + 1

\* C38: a writer opened on a store that holds events at sequences 0..k-1
\* stores its next appended event at sequence k: in every state, also after
\* the writer was opened again, the sequence the writer will put at is free
\* in the store (the put is not rejected for an existing entry), and a
\* successful append keeps every entry the store held and adds one entry
\* above them.
C38_ReopenedWriterContinues ==
    /\ [](~Has(standalone.events_db, standalone.sequence))
    /\ [][StandaloneAppendSucceeds =>
             /\ \A q \in DOMAIN standalone.events_db :
                   /\ Has(standalone'.events_db, q)
                   /\ standalone'.events_db[q] = standalone.events_db[q]
             /\ \E k \in (DOMAIN standalone'.events_db) \ DOMAIN standalone.events_db :
                   /\ DOMAIN standalone'.events_db = DOMAIN standalone.events_db \cup {k}
                   /\ \A q \in DOMAIN standalone.events_db : q < k]_vars


(***************************************************************************)
(* Events handled ahead of the persisted cursor.                           *)
(***************************************************************************)
\* The sequences in h that a cursor of c does not cover.
Uncovered(h, c) == {h[i] : i \in {j \in 1..Len(h) : h[j] > c}}

\* The most events a drain may have handled ahead of the persisted cursor.
MaxUncovered == IF proc.batch_size = 0 THEN 1 ELSE proc.batch_size

\* The events of the current run that an earlier run had handled already.
Redelivered ==
    {handled[i] : i \in {j \in 1..Len(handled) :
        \E r \in 1..Len(runs) :
            \E k \in 1..Len(runs[r].handled) : runs[r].handled[k] = handled[j]}}

\* C35: at every point of a run the events handled and not covered by the
\* persisted cursor number at most batch_size (at most 1 when batch_size
\* is 0); the same held when an earlier run died, and the run started after
\* it is handed at most that many events a second time.
C35_UncoveredAtMostBatch ==
    /\ Cardinality(Uncovered(handled, Cursor)) <= MaxUncovered
    /\ \A r \in 1..Len(runs) :
          Cardinality(Uncovered(runs[r].handled, runs[r].cursor)) <= MaxUncovered
    /\ Cardinality(Redelivered) <= MaxUncovered

\* With a batch size of 2 a run died after it handled events 1 and 2 and
\* before its cursor commit; the next run was handed both again.
C35_Witness ==
    /\ proc.batch_size = 2
    /\ Len(runs) = 1
    /\ runs[1].handled = << 1, 2 >>
    /\ runs[1].cursor = 0
    /\ handled = << 1, 2 >>
    /\ Redelivered = {1, 2}

\* With a batch size of 1 the cursor follows every event: event 2 is handled
\* while the cursor covers event 1.
C35_WitnessBatchOfOne ==
    /\ proc.batch_size = 1
    /\ handled = << 1, 2 >>
    /\ Cursor = 1
    /\ Uncovered(handled, Cursor) = {2}


(***************************************************************************)
(* Properties of the persisted cursors.                                    *)
(***************************************************************************)
\* The consumers that have a processor.
Consumers == {ConsumerId, OtherConsumerId}

\* The persisted cursor of consumer c changes in the step.
CursorCommitted(c) ==
    LoadCursor(db', c) # LoadCursor(db, c) \/ Has(db'.consumer_cursors, c) # Has(db.consumer_cursors, c)

\* C36: with one processor per consumer id, the persisted cursor of a
\* consumer never exceeds the highest committed sequence and never
\* decreases, and a step that commits the cursor of one consumer leaves the
\* cursor of every other consumer and events_log, stream_index, blobs and
\* keystore unchanged.
C36_CursorMonotoneAndFramed ==
    /\ [](\A c \in Consumers : LoadCursor(db, c) <= LastSeq(db))
    /\ [][\A c \in Consumers :
             /\ LoadCursor(db', c) >= LoadCursor(db, c)
             /\ Has(db.consumer_cursors, c) => Has(db'.consumer_cursors, c)
             /\ CursorCommitted(c) =>
                   /\ \A o \in Consumers \ {c} : ~CursorCommitted(o)
                   /\ DOMAIN db'.consumer_cursors = DOMAIN db.consumer_cursors \cup {c}
                   /\ db'.events_log = db.events_log
                   /\ db'.stream_index = db.stream_index
                   /\ db'.blobs = db.blobs
                   /\ db'.keystore = db.keystore]_vars

\* Both consumers hold a cursor over an encrypted log with a blob: the
\* processor followed step by step has committed 2, the other one 1.
C36_Witness ==
    /\ config.encryption_enabled
    /\ LoadCursor(db, ConsumerId) = 2
    /\ LoadCursor(db, OtherConsumerId) = 1
    /\ LastSeq(db) = 2
    /\ DOMAIN db.blobs # {}
    /\ DOMAIN db.keystore # {}


(***************************************************************************)
(* Termination of an iteration.                                            *)
(***************************************************************************)
\* A call of Iter::next() returns an error.
NextYieldsError == reads'.errors = reads.errors + 1

\* C37: an iteration over a finite log terminates, also past a record that
\* fails validation or decryption: once next() has returned the error of
\* sequence k, a further call of next() does not return an error at k
\* again; it has moved past k.
C37_ErrorNotYieldedAgain ==
    [][(reads.pc = "failed" /\ NextYieldsError) =>
          reads'.current_seq > reads.current_seq]_vars


(***************************************************************************)
(* The frame of KeyManager::delete_key.                                    *)
(***************************************************************************)
\* The step removes the stored key of stream s.
KeyRemoved(s) == Has(db.keystore, s) /\ ~Has(db'.keystore, s)

\* C39: delete_key(s) removes keystore[s] and nothing else: events_log,
\* stream_index, blobs, consumer_cursors and the wrapped key of every other
\* stream are unchanged, and every event of another stream reads back as it
\* did before; delete_key for a stream without a key returns Ok and changes
\* nothing in the databases.
C39_DeleteKeyRemovesOnlyThatKey ==
    /\ [][\A s \in ShredStreams : KeyRemoved(s) =>
             /\ db'.events_log = db.events_log
             /\ db'.stream_index = db.stream_index
             /\ db'.blobs = db.blobs
             /\ db'.consumer_cursors = db.consumer_cursors
             /\ DOMAIN db'.keystore = (DOMAIN db.keystore) \ {s}
             /\ \A o \in DOMAIN db'.keystore : db'.keystore[o] = db.keystore[o]
             /\ \A q \in DOMAIN written :
                   written[q].stream_id # s =>
                       /\ get(config, db', q) = get(config, db, q)
                       /\ q \notin erased =>
                             get(config, db', q) = ReadSome(written[q].event)]_vars
    /\ [][deletes' # deletes =>
             /\ db' = db
             /\ \A c \in deletes' \ deletes :
                   c.result = "Ok" /\ ~Has(db.keystore, c.stream_id)]_vars

\* Events of two streams were committed, with a blob and a cursor; the key
\* of the first stream was deleted, and deleted once more when it was gone:
\* the event of the second stream reads back, the first one's does not.
C39_Witness ==
    /\ LogKeys = {1, 2}
    /\ written[1].stream_id # written[2].stream_id
    /\ DOMAIN db.keystore = {written[2].stream_id}
    /\ erased = {1}
    /\ [stream_id |-> written[1].stream_id, result |-> "Ok"] \in deletes
    /\ get(config, db, 2) = ReadSome(written[2].event)
    /\ ~get(config, db, 1).ok
    /\ DOMAIN db.blobs # {}
    /\ DOMAIN db.consumer_cursors # {}

=============================================================================
